---- MODULE Spec2Model ----
(***************************************************************************)
(* Verification model of the OAU campus bike application:                  *)
(*   app/core/geofencing.py      distance, geofence, landmarks, zones      *)
(*   app/utils/location_utils.py pickup recommender, location processing   *)
(*   app/core/analytics.py       composite analytics reports               *)
(*                                                                         *)
(* Numbers.  A latitude or longitude is an integer count of 1e-4 degrees   *)
(* (the precision in which the landmark catalog, the campus polygon and    *)
(* the zone rectangles are written): 7.5227 is 75227.  A distance is kept  *)
(* as its SQUARE in units of (0.5 m)^2, so that every comparison the code  *)
(* makes against a threshold (50 m, 200 m, 500 m, 1 km, 5 km) and against  *)
(* the rounding boundaries (49.5 m, 199.5 m) is an integer comparison.     *)
(***************************************************************************)
EXTENDS Integers, Sequences, FiniteSets, TLC

VARIABLES
    call,   \* the operation last invoked and its arguments: [op, args]
    ret,    \* what that invocation returned
    location_cache, \* LocationService.location_cache: session id -> locations
    processed,      \* history: session id -> the samples processed without error
    sessions,       \* table usersession: session id -> row
    location_updates,   \* table locationupdate: the rows, oldest first
    alerts,         \* table emergencyalert: alert id -> row
    now,            \* datetime.now(timezone.utc), in ticks
    active_connections, \* ConnectionManager.active_connections: the dict entries
    tasks,          \* the coroutines suspended at an await: task id -> frame
    delivered       \* history: websocket -> the messages the client received

\* the state of the running server, which a single call of a pure function
\* or of a report leaves alone
server == <<processed, sessions, location_updates, alerts, now,
            active_connections, tasks, delivered>>

vars == <<call, ret, location_cache, server>>

(***************************************************************************)
(* Bounds of the explored inputs.                                          *)
(***************************************************************************)
GeoSpan == 25       \* half-width (1e-4 deg) of the full-resolution window
CoarseN == 8        \* coarse lattice: CoarseN steps each side of the center
CoarseStep == 20    \* pitch of the coarse lattice (1e-4 deg)

(***************************************************************************)
(* Python values.                                                          *)
(***************************************************************************)
None == <<>>                    \* None
Some(v) == <<v>>                \* a set optional value
Abs(x) == IF x < 0 THEN 0 - x ELSE x
Max2(a, b) == IF a >= b THEN a ELSE b
Min2(a, b) == IF a <= b THEN a ELSE b

\* sum of f over the finite set S
RECURSIVE SumOver(_, _)
SumOver(S, f) ==
    IF S = {} THEN 0
    ELSE LET x == CHOOSE x \in S : TRUE
         IN  f[x] + SumOver(S \ {x}, f)

\* floor(sqrt(n)) by bisection on [lo, hi]
RECURSIVE ISqrtIn(_, _, _)
ISqrtIn(n, lo, hi) ==
    IF lo >= hi THEN lo
    ELSE LET mid == (lo + hi + 1) \div 2
         IN  IF mid * mid <= n THEN ISqrtIn(n, mid, hi)
                               ELSE ISqrtIn(n, lo, mid - 1)
ISqrt(n) == ISqrtIn(n, 0, 46340)

(***************************************************************************)
(* app/config.py                                                           *)
(***************************************************************************)
OAU_CENTER_LAT == 75227
OAU_CENTER_LNG == 45198
OAU_RADIUS_KM == 5

(***************************************************************************)
(* calculate_distance: the haversine distance, returned as the square of   *)
(* the distance in half-metres.  On the campus scale the haversine formula *)
(* is its planar expansion: 1e-4 deg of latitude is 11.1195 m (22.239      *)
(* half-metres, square 494.6) and 1e-4 deg of longitude at latitude 7.52   *)
(* is 11.0238 m (22.048 half-metres, square 486.1); the two agree to       *)
(* 0.3 m within 7 km of the center.  A point more than MaxDelta away in    *)
(* one axis (over 5.07 km, beyond every threshold of the code) gets the    *)
(* saturated value FarDistance.                                            *)
(***************************************************************************)
MaxDelta == 460
FarDistance == 2147395600
Infinity == 2147483647          \* float('inf')

calculate_distance(lat1, lon1, lat2, lon2) ==
    LET dlat == lat2 - lat1
        dlon == lon2 - lon1
    IN  IF Abs(dlat) > MaxDelta \/ Abs(dlon) > MaxDelta
        THEN FarDistance
        ELSE (4946 * dlat * dlat + 4861 * dlon * dlon) \div 10

\* thresholds of the code in the unit of calculate_distance
Meters(m) == (2 * m) * (2 * m)
Km(k) == Meters(1000 * k)

\* round(distance * 1000, 0): Python rounds half to even
RoundMeters(d2) ==
    LET r == ISqrt(d2)              \* whole half-metres
        n == r \div 2
    IN  IF r % 2 = 0 THEN n
        ELSE IF r * r = d2 THEN (IF n % 2 = 0 THEN n ELSE n + 1)
        ELSE n + 1

(***************************************************************************)
(* point_in_polygon: the ray casting loop.  The polygon is a sequence of   *)
(* pairs; the code unpacks each pair as (p_x, p_y) and compares it with    *)
(* x = lon, y = lat.  xinters is compared in exact arithmetic:             *)
(* x <= (y-p1y)*(p2x-p1x)/(p2y-p1y) + p1x, cross-multiplied.               *)
(***************************************************************************)
XLeqXinters(x, y, p1x, p1y, p2x, p2y) ==
    IF p2y - p1y > 0
    THEN (x - p1x) * (p2y - p1y) <= (y - p1y) * (p2x - p1x)
    ELSE (x - p1x) * (p2y - p1y) >= (y - p1y) * (p2x - p1x)

\* mutant of EdgeToggles: the lower end of an edge is counted too (y >= min)
EdgeToggles_m(x, y, p1x, p1y, p2x, p2y) ==
    /\ y >= Min2(p1y, p2y)
    /\ y <= Max2(p1y, p2y)
    /\ x <= Max2(p1x, p2x)
    /\ (p1x = p2x \/ (p1y # p2y /\ XLeqXinters(x, y, p1x, p1y, p2x, p2y)))

\* one iteration of the loop body: whether the edge toggles inside
EdgeToggles(x, y, p1x, p1y, p2x, p2y) ==
    /\ y > Min2(p1y, p2y)
    /\ y <= Max2(p1y, p2y)
    /\ x <= Max2(p1x, p2x)
    /\ (p1x = p2x \/ (p1y # p2y /\ XLeqXinters(x, y, p1x, p1y, p2x, p2y)))

RECURSIVE PolygonLoop(_, _, _, _, _, _, _)
PolygonLoop(i, x, y, polygon, p1x, p1y, inside) ==
    LET n == Len(polygon)
    IN  IF i > n THEN inside
        ELSE LET p2x == polygon[(i % n) + 1][1]
                 p2y == polygon[(i % n) + 1][2]
                 ins == IF EdgeToggles(x, y, p1x, p1y, p2x, p2y)
                        THEN ~inside ELSE inside
             IN  PolygonLoop(i + 1, x, y, polygon, p2x, p2y, ins)

point_in_polygon(lat, lon, polygon) ==
    LET x == lon
        y == lat
    IN  PolygonLoop(1, x, y, polygon, polygon[1][1], polygon[1][2], FALSE)

\* the campus boundary, written as (latitude, longitude) pairs
oau_polygon ==
    << <<75150, 45100>>, <<75300, 45050>>, <<75380, 45200>>, <<75350, 45300>>,
       <<75250, 45350>>, <<75100, 45250>>, <<75150, 45100>> >>

is_within_oau_polygon(latitude, longitude) ==
    point_in_polygon(latitude, longitude, oau_polygon)

is_within_oau_campus(latitude, longitude) ==
    LET distance_from_center ==
            calculate_distance(latitude, longitude, OAU_CENTER_LAT, OAU_CENTER_LNG)
    IN  IF distance_from_center > Km(OAU_RADIUS_KM) THEN FALSE
        ELSE is_within_oau_polygon(latitude, longitude)

(***************************************************************************)
(* OAU_LANDMARKS, in the insertion order of the dict.                      *)
(***************************************************************************)
LM(id, lat, lng, name, type) ==
    [id |-> id, lat |-> lat, lng |-> lng, name |-> name, type |-> type]

OAU_LANDMARKS ==
    << LM("main_gate", 75227, 45198, "Main Gate", "entrance"),
       LM("sub", 75245, 45203, "Student Union Building (SUB)", "building"),
       LM("oduduwa_hall", 75234, 45189, "Oduduwa Hall", "hall"),
       LM("futa", 75256, 45210, "Faculty of Technology", "faculty"),
       LM("science_complex", 75240, 45220, "Science Complex", "faculty"),
       LM("arts_theatre", 75230, 45180, "Arts Theatre", "theatre"),
       LM("mozambique_hostel", 75280, 45167, "Mozambique Hostel", "hostel"),
       LM("angola_hostel", 75289, 45134, "Angola Hostel", "hostel"),
       LM("madagascar_hostel", 75295, 45145, "Madagascar Hostel", "hostel"),
       LM("awolowo_hall", 75270, 45150, "Awolowo Hall", "hostel"),
       LM("sports_complex", 75198, 45234, "Sports Complex", "sports"),
       LM("teaching_hospital", 75345, 45123, "OAU Teaching Hospital (OAUTHC)", "hospital"),
       LM("central_library", 75250, 45200, "Hezekiah Oluwasanmi Library", "library"),
       LM("back_gate", 75320, 45180, "Back Gate", "entrance"),
       LM("coop_gate", 75200, 45280, "Cooperative Gate", "entrance"),
       LM("buka_junction", 75260, 45190, "Buka Junction", "food"),
       LM("atm_point", 75235, 45195, "Banking Complex", "service"),
       LM("chapel_of_wisdom", 75225, 45175, "Chapel of Wisdom", "religious") >>

(***************************************************************************)
(* get_nearest_landmark.  max_distance is given in metres (the code takes  *)
(* kilometres as a float: 1.0 is 1000).  The returned f-string is the      *)
(* record of its parts: "At {name}" is [tier |-> "At", name, meters |-> 0],*)
(* "Close to {name} ({m}m)" carries its meters; two labels are equal       *)
(* exactly when the two strings are.                                       *)
(***************************************************************************)
Label(tier, name, meters) == [tier |-> tier, name |-> name, meters |-> meters]
UnknownLabel == Label("On Campus (Location Unknown)", "", 0)

\* mutant of NearestLoop: the test against min_distance is dropped, so the
\* last landmark within range wins
RECURSIVE NearestLoop_m(_, _, _, _, _)
NearestLoop_m(i, latitude, longitude, max_distance, acc) ==
    IF i > Len(OAU_LANDMARKS) THEN acc
    ELSE LET landmark_data == OAU_LANDMARKS[i]
             distance == calculate_distance(latitude, longitude,
                                            landmark_data.lat, landmark_data.lng)
         IN  IF distance <= Meters(max_distance)
             THEN NearestLoop_m(i + 1, latitude, longitude, max_distance,
                      [min_distance |-> distance,
                       nearest_landmark |-> landmark_data.name,
                       nearest_info |-> Some([name |-> landmark_data.name,
                                              type |-> landmark_data.type,
                                              distance |-> RoundMeters(distance)])])
             ELSE NearestLoop_m(i + 1, latitude, longitude, max_distance, acc)

RECURSIVE NearestLoop(_, _, _, _, _)
NearestLoop(i, latitude, longitude, max_distance, acc) ==
    IF i > Len(OAU_LANDMARKS) THEN acc
    ELSE LET landmark_data == OAU_LANDMARKS[i]
             distance == calculate_distance(latitude, longitude,
                                            landmark_data.lat, landmark_data.lng)
         IN  IF distance < acc.min_distance /\ distance <= Meters(max_distance)
             THEN NearestLoop(i + 1, latitude, longitude, max_distance,
                      [min_distance |-> distance,
                       nearest_landmark |-> landmark_data.name,
                       nearest_info |-> Some([name |-> landmark_data.name,
                                              type |-> landmark_data.type,
                                              distance |-> RoundMeters(distance)])])
             ELSE NearestLoop(i + 1, latitude, longitude, max_distance, acc)

get_nearest_landmark(latitude, longitude, max_distance) ==
    LET fin == NearestLoop(1, latitude, longitude, max_distance,
                   [min_distance |-> Infinity,
                    nearest_landmark |-> "Unknown Location",
                    nearest_info |-> None])
    IN  IF fin.nearest_info # None
        THEN LET info == fin.nearest_info[1]
             IN  IF info.distance < 50 THEN Label("At", fin.nearest_landmark, 0)
                 ELSE IF info.distance < 200 THEN Label("Near", fin.nearest_landmark, 0)
                 ELSE Label("Close to", fin.nearest_landmark, info.distance)
        ELSE UnknownLabel

(***************************************************************************)
(* determine_campus_zone                                                   *)
(***************************************************************************)
\* mutant of determine_campus_zone: the sports rectangle is tested first
determine_campus_zone_m(latitude, longitude) ==
    IF 75180 <= latitude /\ latitude <= 75220 /\ 45220 <= longitude /\ longitude <= 45280
    THEN "Sports & Recreation Zone"
    ELSE IF 75200 <= latitude /\ latitude <= 75260 /\ 45180 <= longitude /\ longitude <= 45230
    THEN "Academic Zone"
    ELSE IF 75260 <= latitude /\ latitude <= 75320 /\ 45120 <= longitude /\ longitude <= 45180
    THEN "Student Residential Zone"
    ELSE IF 75320 <= latitude /\ latitude <= 75380 /\ 45100 <= longitude /\ longitude <= 45150
    THEN "Medical Zone"
    ELSE "General Campus Area"

determine_campus_zone(latitude, longitude) ==
    IF 75200 <= latitude /\ latitude <= 75260 /\ 45180 <= longitude /\ longitude <= 45230
    THEN "Academic Zone"
    ELSE IF 75260 <= latitude /\ latitude <= 75320 /\ 45120 <= longitude /\ longitude <= 45180
    THEN "Student Residential Zone"
    ELSE IF 75320 <= latitude /\ latitude <= 75380 /\ 45100 <= longitude /\ longitude <= 45150
    THEN "Medical Zone"
    ELSE IF 75180 <= latitude /\ latitude <= 75220 /\ 45220 <= longitude /\ longitude <= 45280
    THEN "Sports & Recreation Zone"
    ELSE "General Campus Area"

(***************************************************************************)
(* validate_coordinates                                                    *)
(***************************************************************************)
ErrLatitude == "Invalid latitude: must be between -90 and 90"
ErrLongitude == "Invalid longitude: must be between -180 and 180"
ErrOutside == "Location is outside OAU campus boundaries"

\* mutant of validate_coordinates: the longitude is tested only when the
\* latitude is in range (elif), so one error is reported at most
validate_coordinates_m(latitude, longitude) ==
    LET result0 == [valid |-> FALSE, within_campus |-> FALSE,
                    nearest_landmark |-> None, distance_from_center |-> None,
                    zone |-> None, errors |-> <<>>]
        errors2 == IF ~(-900000 <= latitude /\ latitude <= 900000)
                   THEN <<ErrLatitude>>
                   ELSE IF ~(-1800000 <= longitude /\ longitude <= 1800000)
                   THEN <<ErrLongitude>> ELSE <<>>
    IN  IF errors2 # <<>> THEN [result0 EXCEPT !.errors = errors2]
        ELSE LET within == is_within_oau_campus(latitude, longitude)
                 result1 == [result0 EXCEPT
                     !.within_campus = within,
                     !.distance_from_center =
                         Some(calculate_distance(latitude, longitude,
                                                 OAU_CENTER_LAT, OAU_CENTER_LNG))]
             IN  IF result1.within_campus
                 THEN [result1 EXCEPT
                          !.valid = TRUE,
                          !.nearest_landmark =
                              Some(get_nearest_landmark(latitude, longitude, 1000)),
                          !.zone = Some(determine_campus_zone(latitude, longitude))]
                 ELSE [result1 EXCEPT !.errors = Append(errors2, ErrOutside)]

\* mutant of validate_coordinates: landmark and zone are classified for
\* every coordinate in range, within the campus or not
validate_coordinates_m2(latitude, longitude) ==
    LET result0 == [valid |-> FALSE, within_campus |-> FALSE,
                    nearest_landmark |-> None, distance_from_center |-> None,
                    zone |-> None, errors |-> <<>>]
        errors1 == IF ~(-900000 <= latitude /\ latitude <= 900000)
                   THEN Append(result0.errors, ErrLatitude) ELSE result0.errors
        errors2 == IF ~(-1800000 <= longitude /\ longitude <= 1800000)
                   THEN Append(errors1, ErrLongitude) ELSE errors1
    IN  IF errors2 # <<>> THEN [result0 EXCEPT !.errors = errors2]
        ELSE LET within == is_within_oau_campus(latitude, longitude)
                 result1 == [result0 EXCEPT
                     !.within_campus = within,
                     !.distance_from_center =
                         Some(calculate_distance(latitude, longitude,
                                                 OAU_CENTER_LAT, OAU_CENTER_LNG)),
                     !.nearest_landmark =
                         Some(get_nearest_landmark(latitude, longitude, 1000)),
                     !.zone = Some(determine_campus_zone(latitude, longitude))]
             IN  IF result1.within_campus
                 THEN [result1 EXCEPT !.valid = TRUE]
                 ELSE [result1 EXCEPT !.errors = Append(errors2, ErrOutside)]

validate_coordinates(latitude, longitude) ==
    LET result0 == [valid |-> FALSE, within_campus |-> FALSE,
                    nearest_landmark |-> None, distance_from_center |-> None,
                    zone |-> None, errors |-> <<>>]
        errors1 == IF ~(-900000 <= latitude /\ latitude <= 900000)
                   THEN Append(result0.errors, ErrLatitude) ELSE result0.errors
        errors2 == IF ~(-1800000 <= longitude /\ longitude <= 1800000)
                   THEN Append(errors1, ErrLongitude) ELSE errors1
    IN  IF errors2 # <<>> THEN [result0 EXCEPT !.errors = errors2]
        ELSE LET within == is_within_oau_campus(latitude, longitude)
                 result1 == [result0 EXCEPT
                     !.within_campus = within,
                     !.distance_from_center =
                         Some(calculate_distance(latitude, longitude,
                                                 OAU_CENTER_LAT, OAU_CENTER_LNG))]
             IN  IF result1.within_campus
                 THEN [result1 EXCEPT
                          !.valid = TRUE,
                          !.nearest_landmark =
                              Some(get_nearest_landmark(latitude, longitude, 1000)),
                          !.zone = Some(determine_campus_zone(latitude, longitude))]
                 ELSE [result1 EXCEPT !.errors = Append(errors2, ErrOutside)]

(***************************************************************************)
(* Inputs of the geofencing specification.                                 *)
(***************************************************************************)
Window ==
    { <<la, lo>> : la \in (OAU_CENTER_LAT - GeoSpan)..(OAU_CENTER_LAT + GeoSpan),
                   lo \in (OAU_CENTER_LNG - GeoSpan)..(OAU_CENTER_LNG + GeoSpan) }

Coarse ==
    { <<OAU_CENTER_LAT + CoarseStep * i, OAU_CENTER_LNG + CoarseStep * j>> :
          i \in (0 - CoarseN)..CoarseN, j \in (0 - CoarseN)..CoarseN }

\* corners of the zone rectangles, one step inside and outside of each
ZoneEdgeLats == {75180, 75200, 75220, 75260, 75320, 75380}
ZoneEdgeLngs == {45100, 45120, 45150, 45180, 45220, 45230, 45280}
ZoneCorners ==
    { <<la + a, lo + b>> : la \in ZoneEdgeLats, lo \in ZoneEdgeLngs,
                           a \in {-1, 0, 1}, b \in {-1, 0, 1} }

LandmarkPoints == { <<OAU_LANDMARKS[i].lat, OAU_LANDMARKS[i].lng>> :
                        i \in 1..Len(OAU_LANDMARKS) }
PolygonPoints == { oau_polygon[i] : i \in 1..Len(oau_polygon) }

\* far from the campus, across the 5 km radius, and the transposed campus
FarPoints ==
    { <<0, 0>>, <<45200, 75250>>,
      <<OAU_CENTER_LAT + 449, OAU_CENTER_LNG>>, <<OAU_CENTER_LAT + 450, OAU_CENTER_LNG>>,
      <<OAU_CENTER_LAT, OAU_CENTER_LNG + 453>>, <<OAU_CENTER_LAT, OAU_CENTER_LNG + 454>>,
      <<OAU_CENTER_LAT - 470, OAU_CENTER_LNG + 470>>,
      <<900000, 1800000>>, <<-900000, -1800000>> }

\* outside the range of a latitude or of a longitude
OutOfRange ==
    { <<900001, 45198>>, <<-900001, 45198>>, <<75227, 1800001>>,
      <<75227, -1800001>>, <<900001, 1800001>>, <<-900001, -1800001>>,
      <<1000000, 0>>, <<0, 2000000>> }

GeoPoints == Window \cup Coarse \cup ZoneCorners \cup LandmarkPoints
                 \cup PolygonPoints \cup FarPoints
AllPoints == GeoPoints \cup OutOfRange

MaxDistances == {0, 60, 300, 1000}      \* metres

(***************************************************************************)
(* Geofencing specification: each action is one call of a function of      *)
(* app/core/geofencing.py on an input of the bounded sets; the functions   *)
(* are pure, so a behaviour is the start state followed by one call.       *)
(***************************************************************************)
Call(op, args) == [op |-> op, args |-> args]
Idle == call.op = "start"      \* no call made yet: each behaviour is one call

Init ==
    /\ call = Call("start", <<>>)
    /\ ret = None
    /\ location_cache = <<>>       \* {}
    /\ processed = <<>>
    /\ sessions = <<>>             \* the tables are empty
    /\ location_updates = <<>>
    /\ alerts = <<>>
    /\ now = 0
    /\ active_connections = <<>>   \* {}
    /\ tasks = <<>>
    /\ delivered = <<>>

IsWithinCampus ==
    /\ Idle
    /\ \E p \in AllPoints :
        /\ call' = Call("is_within_oau_campus", p)
        /\ ret' = is_within_oau_campus(p[1], p[2])
    /\ UNCHANGED <<location_cache, server>>

NearestLandmark ==
    /\ Idle
    /\ \E p \in AllPoints, m \in MaxDistances :
        /\ call' = Call("get_nearest_landmark", <<p[1], p[2], m>>)
        /\ ret' = get_nearest_landmark(p[1], p[2], m)
    /\ UNCHANGED <<location_cache, server>>

ResolveZone ==
    /\ Idle
    /\ \E p \in AllPoints :
        /\ call' = Call("determine_campus_zone", p)
        /\ ret' = determine_campus_zone(p[1], p[2])
    /\ UNCHANGED <<location_cache, server>>

ValidateCoordinates ==
    /\ Idle
    /\ \E p \in AllPoints :
        /\ call' = Call("validate_coordinates", p)
        /\ ret' = validate_coordinates(p[1], p[2])
    /\ UNCHANGED <<location_cache, server>>

Next ==
    \/ IsWithinCampus
    \/ NearestLandmark
    \/ ResolveZone
    \/ ValidateCoordinates

Spec == Init /\ [][Next]_vars

(***************************************************************************)
(* Plane geometry used to state the claims: the crossing number of the     *)
(* ray from (x, y) toward +x with a ring of <<x, y>> vertices, counted     *)
(* edge by edge.  An edge is crossed when its two ends are on different    *)
(* sides of the line of the ray (an end on the line counts as below it)    *)
(* and the crossing point is right of x.                                   *)
(***************************************************************************)
RingEdge(ring, i) == <<ring[i], ring[(i % Len(ring)) + 1]>>

Cross(a, b, c) == (b[1] - a[1]) * (c[2] - a[2]) - (b[2] - a[2]) * (c[1] - a[1])

OnSegment(p, a, b) ==
    /\ Cross(a, b, p) = 0
    /\ Min2(a[1], b[1]) <= p[1] /\ p[1] <= Max2(a[1], b[1])
    /\ Min2(a[2], b[2]) <= p[2] /\ p[2] <= Max2(a[2], b[2])

OnBoundary(p, ring) ==
    \E i \in 1..Len(ring) : OnSegment(p, RingEdge(ring, i)[1], RingEdge(ring, i)[2])

RayCrosses(p, a, b) ==
    /\ (a[2] > p[2]) # (b[2] > p[2])
    /\ IF b[2] > a[2] THEN Cross(a, b, p) > 0 ELSE Cross(a, b, p) < 0

CrossingsRight(p, ring) ==
    Cardinality({ i \in 1..Len(ring) :
                    RayCrosses(p, RingEdge(ring, i)[1], RingEdge(ring, i)[2]) })

\* the campus boundary as a ring of <<x, y>> = <<longitude, latitude>>
CampusRing == [i \in 1..Len(oau_polygon) |-> <<oau_polygon[i][2], oau_polygon[i][1]>>]

\* the campus polygon contains the point (latitude, longitude)
CampusContains(latitude, longitude) ==
    CrossingsRight(<<longitude, latitude>>, CampusRing) % 2 = 1

OnCampusBoundary(latitude, longitude) == OnBoundary(<<longitude, latitude>>, CampusRing)

WithinRadius(latitude, longitude) ==
    calculate_distance(latitude, longitude, OAU_CENTER_LAT, OAU_CENTER_LNG)
        <= Km(OAU_RADIUS_KM)

(***************************************************************************)
(* Claims about the geofence (specification Spec).                         *)
(***************************************************************************)

\* C1: is_within_oau_campus evaluated at the configured campus center
\* (7.5227, 4.5198) returns true.
C1_CenterIsWithinCampus ==
    (call.op = "is_within_oau_campus"
        /\ call.args = <<OAU_CENTER_LAT, OAU_CENTER_LNG>>) => ret = TRUE

\* C2: for every point off the boundary line, is_within_oau_campus is true
\* exactly when the point is within the campus radius of the center and the
\* campus polygon contains it.
C2_RadiusAndPolygon ==
    (call.op = "is_within_oau_campus"
        /\ ~OnCampusBoundary(call.args[1], call.args[2]))
    => ret = (WithinRadius(call.args[1], call.args[2])
                 /\ CampusContains(call.args[1], call.args[2]))

\* distance of the point of a get_nearest_landmark call to landmark i
LandmarkDistance(i) ==
    calculate_distance(call.args[1], call.args[2],
                       OAU_LANDMARKS[i].lat, OAU_LANDMARKS[i].lng)
LandmarkIds == 1..Len(OAU_LANDMARKS)
InRange == { i \in LandmarkIds : LandmarkDistance(i) <= Meters(call.args[3]) }
\* the first landmark, in catalog order, at the least distance of the catalog
Closest ==
    CHOOSE i \in LandmarkIds :
        /\ \A j \in LandmarkIds : LandmarkDistance(i) <= LandmarkDistance(j)
        /\ \A j \in 1..(i - 1) : LandmarkDistance(j) > LandmarkDistance(i)

\* C4: the landmark named by get_nearest_landmark is the first catalog
\* landmark at the least distance over the whole catalog, when that distance
\* is within max_distance; the label is "On Campus (Location Unknown)"
\* exactly when no catalog landmark is within max_distance.
C4_NearestIsMinimal ==
    call.op = "get_nearest_landmark" =>
        /\ (ret = UnknownLabel) <=> (InRange = {})
        /\ InRange # {} =>
              /\ Closest \in InRange
              /\ ret.name = OAU_LANDMARKS[Closest].name
              /\ ret.tier \in {"At", "Near", "Close to"}

\* C4 witness: several landmarks are within range and the one named is not
\* the first of them in the catalog.
C4_Witness ==
    /\ call.op = "get_nearest_landmark"
    /\ Cardinality(InRange) >= 3
    /\ ret # UnknownLabel
    /\ \E i \in InRange : i < Closest
    /\ ret.name = OAU_LANDMARKS[Closest].name

\* C5: with the nearest landmark at d metres, the label is "At" for every
\* d < 50, "Near" for every 50 <= d < 200 and "Close to" otherwise, also for
\* a distance just below a threshold such as 49.6 m.
C5_TiersByDistance ==
    (call.op = "get_nearest_landmark" /\ InRange # {}) =>
        LET d == LandmarkDistance(Closest)
        IN  ret.tier = IF d < Meters(50) THEN "At"
                       ELSE IF d < Meters(200) THEN "Near"
                       ELSE "Close to"

\* the zone rectangles in their order of priority:
\* <<name, south, north, west, east>>, bounds included
ZoneRectangles ==
    << <<"Academic Zone", 75200, 75260, 45180, 45230>>,
       <<"Student Residential Zone", 75260, 75320, 45120, 45180>>,
       <<"Medical Zone", 75320, 75380, 45100, 45150>>,
       <<"Sports & Recreation Zone", 75180, 75220, 45220, 45280>> >>
InRectangle(latitude, longitude, z) ==
    /\ z[2] <= latitude /\ latitude <= z[3]
    /\ z[4] <= longitude /\ longitude <= z[5]
ZonesOf(latitude, longitude) ==
    { k \in 1..Len(ZoneRectangles) : InRectangle(latitude, longitude, ZoneRectangles[k]) }

\* C6: determine_campus_zone returns the first zone, in the order Academic,
\* Student Residential, Medical, Sports & Recreation, whose rectangle
\* (bounds included) contains the coordinate, and "General Campus Area"
\* exactly when no rectangle contains it.
C6_FirstMatchingZone ==
    call.op = "determine_campus_zone" =>
        LET zs == ZonesOf(call.args[1], call.args[2])
        IN  /\ (ret = "General Campus Area") <=> (zs = {})
            /\ zs # {} =>
                 ret = ZoneRectangles[CHOOSE k \in zs : \A j \in zs : k <= j][1]
            /\ call.args = <<0, 0>> => ret = "General Campus Area"

\* C6 witness: a coordinate of the Academic/Sports overlap resolves to the
\* Academic zone.
C6_Witness ==
    /\ call.op = "determine_campus_zone"
    /\ {1, 4} \subseteq ZonesOf(call.args[1], call.args[2])
    /\ ret = "Academic Zone"

LatitudeInRange(latitude) == -900000 <= latitude /\ latitude <= 900000
LongitudeInRange(longitude) == -1800000 <= longitude /\ longitude <= 1800000

\* C7: for a latitude outside [-90, 90] or a longitude outside [-180, 180],
\* validate_coordinates returns valid = false with one error per violated
\* range and classifies nothing: within_campus stays false and
\* distance_from_center, nearest_landmark and zone stay unset.
C7_RangeErrorsStop ==
    (call.op = "validate_coordinates"
        /\ ~(LatitudeInRange(call.args[1]) /\ LongitudeInRange(call.args[2])))
    => /\ ret.valid = FALSE
       /\ ret.errors =
            (IF LatitudeInRange(call.args[1]) THEN <<>> ELSE <<ErrLatitude>>)
            \o (IF LongitudeInRange(call.args[2]) THEN <<>> ELSE <<ErrLongitude>>)
       /\ ret.within_campus = FALSE
       /\ ret.distance_from_center = None
       /\ ret.nearest_landmark = None
       /\ ret.zone = None

\* C7 witness: both ranges are violated and two errors are reported.
C7_Witness ==
    /\ call.op = "validate_coordinates"
    /\ ~LatitudeInRange(call.args[1]) /\ ~LongitudeInRange(call.args[2])
    /\ Len(ret.errors) = 2

\* C8 as claimed: for every coordinate that passes the range check,
\* validate_coordinates reports campus membership, distance from center,
\* nearest landmark and zone, none left unset, inside or outside the campus.
C8_AllFourReported ==
    (call.op = "validate_coordinates"
        /\ LatitudeInRange(call.args[1]) /\ LongitudeInRange(call.args[2]))
    => /\ ret.within_campus \in BOOLEAN
       /\ ret.distance_from_center # None
       /\ ret.nearest_landmark # None
       /\ ret.zone # None

\* C8 as amended: for every coordinate that passes the range check,
\* validate_coordinates reports campus membership and distance from center;
\* nearest landmark and zone are reported exactly when the coordinate is
\* reported within campus, otherwise they stay unset, valid stays false and
\* the only error is the outside-campus error.
C8_LandmarkAndZoneOnlyWithinCampus ==
    (call.op = "validate_coordinates"
        /\ LatitudeInRange(call.args[1]) /\ LongitudeInRange(call.args[2]))
    => /\ ret.within_campus \in BOOLEAN
       /\ ret.distance_from_center =
             Some(calculate_distance(call.args[1], call.args[2],
                                     OAU_CENTER_LAT, OAU_CENTER_LNG))
       /\ ret.valid = ret.within_campus
       /\ ret.within_campus =>
             /\ ret.nearest_landmark # None /\ ret.zone # None
             /\ ret.errors = <<>>
       /\ ~ret.within_campus =>
             /\ ret.nearest_landmark = None /\ ret.zone = None
             /\ ret.errors = <<ErrOutside>>

\* C8 witness: a coordinate in range, close to a landmark and in a zone
\* rectangle, is validated and its landmark and zone are left unset.
C8_Witness ==
    /\ call.op = "validate_coordinates"
    /\ LatitudeInRange(call.args[1]) /\ LongitudeInRange(call.args[2])
    /\ ZonesOf(call.args[1], call.args[2]) # {}
    /\ ret.distance_from_center # None
    /\ ret.nearest_landmark = None
    /\ ret.zone = None

(***************************************************************************)
(* Polygon specification: point_in_polygon on every simple polygon with    *)
(* at most MaxVerts vertices on the lattice 0..PolyGrid, from every start  *)
(* vertex and in both orientations, given as an open ring (the loop closes *)
(* it through polygon[i % n]) or with the first vertex repeated at the end *)
(* (as oau_polygon is written; the repeat is a zero-length edge).          *)
(***************************************************************************)
PolyGrid == 2
MaxVerts == 4

Lattice == (0..PolyGrid) \X (0..PolyGrid)

\* two segments have a point in common
SegmentsMeet(a, b, c, d) ==
    \/ OnSegment(a, c, d) \/ OnSegment(b, c, d)
    \/ OnSegment(c, a, b) \/ OnSegment(d, a, b)
    \/ /\ (Cross(a, b, c) > 0) # (Cross(a, b, d) > 0)
       /\ Cross(a, b, c) # 0 /\ Cross(a, b, d) # 0
       /\ (Cross(c, d, a) > 0) # (Cross(c, d, b) > 0)
       /\ Cross(c, d, a) # 0 /\ Cross(c, d, b) # 0

\* a ring of distinct vertices is simple: consecutive edges meet only at
\* their common vertex, other edges do not meet
SimpleRing(ring) ==
    LET n == Len(ring)
        Adjacent(i, j) == j = (i % n) + 1 \/ i = (j % n) + 1
    IN  /\ \A i, j \in 1..n : i # j => ring[i] # ring[j]
        /\ \A i, j \in 1..n :
             i < j =>
               LET e == RingEdge(ring, i)
                   f == RingEdge(ring, j)
               IN  IF Adjacent(i, j)
                   THEN IF j = (i % n) + 1
                        THEN ~OnSegment(e[1], f[1], f[2]) /\ ~OnSegment(f[2], e[1], e[2])
                        ELSE ~OnSegment(f[1], e[1], e[2]) /\ ~OnSegment(e[2], f[1], f[2])
                   ELSE ~SegmentsMeet(e[1], e[2], f[1], f[2])

SimpleRings ==
    UNION { { r \in [1..k -> Lattice] : SimpleRing(r) } : k \in 3..MaxVerts }

PointInPolygon ==
    /\ Idle
    /\ \E r \in SimpleRings, p \in Lattice, closed \in BOOLEAN :
         LET polygon == IF closed THEN Append(r, r[1]) ELSE r
         IN  /\ call' = Call("point_in_polygon", <<p[2], p[1], polygon>>)
             /\ ret' = point_in_polygon(p[2], p[1], polygon)
    /\ UNCHANGED <<location_cache, server>>

NextPoly == PointInPolygon

SpecPoly == Init /\ [][NextPoly]_vars

\* C3: for a simple polygon given as a ring of (x, y) vertices and a point on
\* none of its edges, point_in_polygon returns true exactly when the ray from
\* the point toward +x crosses the boundary an odd number of times; a ray
\* through a vertex, a horizontal edge and a zero-length edge change nothing.
C3_CrossingNumber ==
    (call.op = "point_in_polygon"
        /\ ~OnBoundary(<<call.args[2], call.args[1]>>, call.args[3]))
    => ret = (CrossingsRight(<<call.args[2], call.args[1]>>, call.args[3]) % 2 = 1)

\* C3 witness: the point is inside, its ray leaves through a vertex of the
\* ring, and the ring has a horizontal and a zero-length edge.
C3_Witness ==
    /\ call.op = "point_in_polygon"
    /\ LET p == <<call.args[2], call.args[1]>>
           ring == call.args[3]
       IN  /\ ~OnBoundary(p, ring)
           /\ ret = TRUE
           /\ \E i \in 1..Len(ring) : ring[i][2] = p[2] /\ ring[i][1] > p[1]
           /\ \E i \in 1..Len(ring) :
                 LET e == RingEdge(ring, i) IN e[1] # e[2] /\ e[1][2] = e[2][2]
           /\ \E i \in 1..Len(ring) : RingEdge(ring, i)[1] = RingEdge(ring, i)[2]

(***************************************************************************)
(* app/utils/location_utils.py: the pickup recommender.                    *)
(***************************************************************************)
\* list.sort(key=...) on <<key, item>> pairs: insertion of x behind every
\* element that does not exceed it keeps equal keys in their input order
RECURSIVE InsertAsc(_, _, _)
InsertAsc(x, sorted, i) ==
    IF i > Len(sorted) THEN Append(sorted, x)
    ELSE IF sorted[i][1] > x[1]
         THEN SubSeq(sorted, 1, i - 1) \o <<x>> \o SubSeq(sorted, i, Len(sorted))
         ELSE InsertAsc(x, sorted, i + 1)

RECURSIVE SortPairsAsc(_, _, _)
SortPairsAsc(pairs, i, sorted) ==
    IF i > Len(pairs) THEN sorted
    ELSE SortPairsAsc(pairs, i + 1, InsertAsc(pairs[i], sorted, 1))

\* round(a / b) for a >= 0, b > 0: Python rounds half to even
RoundDiv(a, b) ==
    LET q == a \div b
        r == a % b
    IN  IF 2 * r < b THEN q
        ELSE IF 2 * r > b THEN q + 1
        ELSE IF q % 2 = 0 THEN q ELSE q + 1

\* round(a / b) for any a, b > 0
RoundSigned(a, b) == IF a >= 0 THEN RoundDiv(a, b) ELSE 0 - RoundDiv(0 - a, b)

\* _get_landmarks_within_radius: landmarks within radius_meters, each with
\* its id and its rounded distance, sorted by that distance
RECURSIVE LandmarksWithinLoop(_, _, _, _, _)
LandmarksWithinLoop(i, latitude, longitude, radius_meters, nearby_landmarks) ==
    IF i > Len(OAU_LANDMARKS) THEN nearby_landmarks
    ELSE LET landmark_data == OAU_LANDMARKS[i]
             distance == calculate_distance(latitude, longitude,
                                            landmark_data.lat, landmark_data.lng)
         IN  IF distance <= Meters(radius_meters)
             THEN LandmarksWithinLoop(i + 1, latitude, longitude, radius_meters,
                      Append(nearby_landmarks,
                             [id |-> landmark_data.id,
                              lat |-> landmark_data.lat, lng |-> landmark_data.lng,
                              name |-> landmark_data.name, type |-> landmark_data.type,
                              distance_meters |-> RoundMeters(distance)]))
             ELSE LandmarksWithinLoop(i + 1, latitude, longitude, radius_meters,
                                      nearby_landmarks)

\* nearby_landmarks.sort(key=lambda x: x["distance_meters"])
SortByDistanceMeters(seq) ==
    LET pairs == [k \in 1..Len(seq) |-> <<seq[k].distance_meters, seq[k]>>]
        sorted == SortPairsAsc(pairs, 1, <<>>)
    IN  [k \in 1..Len(seq) |-> sorted[k][2]]

get_landmarks_within_radius(latitude, longitude, radius_meters) ==
    SortByDistanceMeters(LandmarksWithinLoop(1, latitude, longitude, radius_meters, <<>>))

\* _get_nearby_drivers.  rows is the result of the query: the location
\* updates of the active, recently seen driver sessions, newest first, each
\* [session_id, latitude, longitude].  The loop unpacks every element of
\* driver_result.scalars().all() as (loc_update, session_id); whether the
\* elements are such pairs is decided by the ORM, outside this repository:
\* when they are not (as_pairs = FALSE) the unpacking of the first element
\* raises and the except clause returns [].
RECURSIVE NearbyDriversLoop(_, _, _, _, _, _, _)
NearbyDriversLoop(i, latitude, longitude, radius_meters, rows, nearby_drivers, processed_sessions) ==
    IF i > Len(rows) THEN nearby_drivers
    ELSE IF rows[i].session_id \in processed_sessions
    THEN NearbyDriversLoop(i + 1, latitude, longitude, radius_meters, rows,
                           nearby_drivers, processed_sessions)
    ELSE LET distance == calculate_distance(latitude, longitude,
                                            rows[i].latitude, rows[i].longitude)
         IN  IF distance <= Meters(radius_meters)
             THEN NearbyDriversLoop(i + 1, latitude, longitude, radius_meters, rows,
                      Append(nearby_drivers,
                             [session_id |-> rows[i].session_id,
                              distance_meters |-> RoundMeters(distance),
                              location |-> [lat |-> rows[i].latitude,
                                            lng |-> rows[i].longitude]]),
                      processed_sessions \cup {rows[i].session_id})
             ELSE NearbyDriversLoop(i + 1, latitude, longitude, radius_meters, rows,
                                    nearby_drivers, processed_sessions)

get_nearby_drivers(latitude, longitude, radius_meters, rows, as_pairs) ==
    IF rows # <<>> /\ ~as_pairs THEN <<>>
    ELSE NearbyDriversLoop(1, latitude, longitude, radius_meters, rows, <<>>, {})

\* _calculate_pickup_score.  Scores are exact: total_score is kept in tenths
\* (round(total, 1) * 10) and distance in metres (distance_km * 1000).
AccessibilityScore(type) ==
    CASE type = "entrance" -> 90
      [] type = "building" -> 80
      [] type = "hall" -> 75
      [] type = "faculty" -> 85
      [] type = "hostel" -> 70
      [] type = "sports" -> 60
      [] type = "hospital" -> 95
      [] type = "library" -> 85
      [] type = "food" -> 65
      [] type = "service" -> 70
      [] type = "religious" -> 60
      [] OTHER -> 50

safety_landmarks == {"main_gate", "sub", "teaching_hospital", "central_library"}

\* the distance score taken as abs(100 - distance_km * 50) in place of
\* max(0, 100 - distance_km * 50): beyond 2 km the score rises with distance
calculate_pickup_score_m(landmark, driver_locations) ==
    LET distance_score20 == Abs(2000 - landmark.distance_meters)
        nearby_drivers ==
            Cardinality({ k \in 1..Len(driver_locations) :
                            driver_locations[k].distance_meters <= 500 })
        driver_score == Min2(100, nearby_drivers * 25)
        accessibility_score == AccessibilityScore(landmark.type)
        safety_score == IF landmark.id \in safety_landmarks THEN 90 ELSE 70
        wait_time == IF nearby_drivers > 0
                     THEN Max2(2, 10 - nearby_drivers * 2) ELSE 15
        total200 == 3 * distance_score20 + 80 * driver_score
                        + 40 * accessibility_score + 20 * safety_score
    IN  [total_score |-> RoundDiv(total200, 20),
         distance |-> landmark.distance_meters,
         driver_count |-> nearby_drivers,
         accessibility |-> accessibility_score,
         safety |-> safety_score,
         wait_time |-> wait_time]

calculate_pickup_score(landmark, driver_locations) ==
    LET distance_score20 == Max2(0, 2000 - landmark.distance_meters)  \* score * 20
        nearby_drivers ==
            Cardinality({ k \in 1..Len(driver_locations) :
                            driver_locations[k].distance_meters <= 500 })
        driver_score == Min2(100, nearby_drivers * 25)
        accessibility_score == AccessibilityScore(landmark.type)
        safety_score == IF landmark.id \in safety_landmarks THEN 90 ELSE 70
        wait_time == IF nearby_drivers > 0
                     THEN Max2(2, 10 - nearby_drivers * 2) ELSE 15
        total200 == 3 * distance_score20 + 80 * driver_score
                        + 40 * accessibility_score + 20 * safety_score
    IN  [total_score |-> RoundDiv(total200, 20),
         distance |-> landmark.distance_meters,
         driver_count |-> nearby_drivers,
         accessibility |-> accessibility_score,
         safety |-> safety_score,
         wait_time |-> wait_time]

\* optimal_locations.sort(key=lambda x: x["score"], reverse=True): stable
SortByScoreDescending(seq) ==
    LET pairs == [k \in 1..Len(seq) |-> <<0 - seq[k].score, seq[k]>>]
        sorted == SortPairsAsc(pairs, 1, <<>>)
    IN  [k \in 1..Len(seq) |-> sorted[k][2]]

\* get_optimal_pickup_locations
get_optimal_pickup_locations(latitude, longitude, max_distance, has_db, rows, as_pairs) ==
    LET nearby_landmarks == get_landmarks_within_radius(latitude, longitude, max_distance)
        driver_locations ==
            IF has_db
            THEN get_nearby_drivers(latitude, longitude, max_distance, rows, as_pairs)
            ELSE <<>>
        optimal_locations ==
            [k \in 1..Len(nearby_landmarks) |->
                LET location_score ==
                        calculate_pickup_score(nearby_landmarks[k], driver_locations)
                IN  [landmark |-> nearby_landmarks[k],
                     score |-> location_score.total_score,
                     distance |-> location_score.distance,
                     available_drivers |-> location_score.driver_count,
                     accessibility |-> location_score.accessibility,
                     safety_rating |-> location_score.safety,
                     estimated_wait_time |-> location_score.wait_time]]
        sorted == SortByScoreDescending(optimal_locations)
    IN  SubSeq(sorted, 1, Min2(10, Len(sorted)))

(***************************************************************************)
(* Pickup specification: one call of get_optimal_pickup_locations for a    *)
(* passenger position and a database holding at most MaxDriverRows driver  *)
(* location updates.                                                       *)
(***************************************************************************)
MaxDriverRows == 2
DriverSessions == {"d1", "d2"}

PassengerPoints ==
    { <<75227, 45198>>, <<75240, 45210>>, <<75198, 45234>>,
      <<75290, 45140>>, <<75345, 45123>>, <<75227, 45150>>, <<0, 0>> }

DriverSpots ==
    { <<75227, 45198>>, <<75260, 45190>>, <<75200, 45240>>,
      <<75280, 45160>>, <<75227, 45110>> }

DriverRow(s, p) == [session_id |-> s, latitude |-> p[1], longitude |-> p[2]]
DriverRows == { DriverRow(s, p) : s \in DriverSessions, p \in DriverSpots }
DriverRowLists == UNION { [1..n -> DriverRows] : n \in 0..MaxDriverRows }

OptimalPickupLocations ==
    /\ Idle
    /\ \E p \in PassengerPoints, rows \in DriverRowLists,
          has_db \in BOOLEAN, as_pairs \in BOOLEAN :
         /\ call' = Call("get_optimal_pickup_locations",
                         <<p[1], p[2], 1000, has_db, rows, as_pairs>>)
         /\ ret' = get_optimal_pickup_locations(p[1], p[2], 1000, has_db, rows, as_pairs)
    /\ UNCHANGED <<location_cache, server>>

NextPickup == OptimalPickupLocations

SpecPickup == Init /\ [][NextPickup]_vars

\* the drivers the call found nearby, and those of them within 500 m of a
\* landmark
FoundDrivers ==
    IF call.args[4]
    THEN get_nearby_drivers(call.args[1], call.args[2], call.args[3],
                            call.args[5], call.args[6])
    ELSE <<>>
DriversNearLandmark(landmark) ==
    { k \in 1..Len(FoundDrivers) :
        calculate_distance(FoundDrivers[k].location.lat, FoundDrivers[k].location.lng,
                           landmark.lat, landmark.lng) <= Meters(500) }

LandmarkCategories ==
    {"entrance", "building", "hall", "faculty", "hostel", "sports",
     "hospital", "library", "food", "service", "religious"}

\* C17: every catalog landmark offered as a pickup location has one of the
\* eleven enumerated categories, and its accessibility is the score of that
\* category, never the default 50 of an unlisted one.
C17_CatalogCategoriesEnumerated ==
    call.op = "get_optimal_pickup_locations" =>
        \A k \in 1..Len(ret) :
            /\ ret[k].landmark.type \in LandmarkCategories
            /\ ret[k].accessibility # 50
            /\ \E i \in LandmarkIds : /\ OAU_LANDMARKS[i].id = ret[k].landmark.id
                                       /\ OAU_LANDMARKS[i].type \in LandmarkCategories

(***************************************************************************)
(* Composite reports and persistence read failures.                        *)
(*                                                                         *)
(* A report awaits a sequence of reads.  failing is the set of its reads   *)
(* whose db.execute raises.  A call ends in one of two ways: the exception *)
(* leaves the call (Raised), or a value is returned (Returned).  A         *)
(* returned value is [error, parts]: error is the top-level "error" entry  *)
(* (None when the dict has none), parts maps every sub-result that the     *)
(* dict holds to "ok", to "error" (the sub-result is an {"error": ...}     *)
(* record) or to "empty" ({}, the sub-computation was skipped).            *)
(***************************************************************************)
Raised(e) == [kind |-> "raised", error |-> e]
Returned(error, parts) == [kind |-> "returned", error |-> error, parts |-> parts]

NoParts == [n \in {} |-> "ok"]
AllOk(names) == [n \in names |-> "ok"]

\* the first read, in the order of the awaits, that raises
FirstFailing(reads, failing) ==
    reads[CHOOSE i \in 1..Len(reads) :
              /\ reads[i] \in failing
              /\ \A j \in 1..(i - 1) : reads[j] \notin failing]
AnyFails(reads, failing) == \E i \in 1..Len(reads) : reads[i] \in failing

\* CampusAnalytics.get_real_time_stats: six awaited reads, no try
RealTimeReads ==
    <<"active_sessions", "drivers", "passengers",
      "bike_availability", "peak_hours", "popular_locations">>
RealTimeParts == {"active_users", "bike_availability", "peak_hours", "popular_locations"}

get_real_time_stats(failing) ==
    IF AnyFails(RealTimeReads, failing)
    THEN Raised(FirstFailing(RealTimeReads, failing))
    ELSE Returned(None, AllOk(RealTimeParts))

\* CampusAnalytics.get_demand_patterns: four awaited reads, no try
DemandReads == <<"hourly_patterns", "daily_patterns", "location_patterns", "predictions">>
DemandParts ==
    {"hourly_patterns", "daily_patterns", "location_patterns", "predictions", "insights"}

get_demand_patterns(failing) ==
    IF AnyFails(DemandReads, failing)
    THEN Raised(FirstFailing(DemandReads, failing))
    ELSE Returned(None, AllOk(DemandParts))

\* CampusAnalytics.get_safety_analytics: one awaited read, no try
SafetyReads == <<"emergency_patterns">>
SafetyParts == {"emergency_patterns", "safety_metrics", "recommendations"}

get_safety_analytics(failing) ==
    IF AnyFails(SafetyReads, failing)
    THEN Raised(FirstFailing(SafetyReads, failing))
    ELSE Returned(None, AllOk(SafetyParts))

\* LocationService.generate_campus_activity_map: one read inside the try of
\* the whole function; the except returns {"error": str(e)} alone
ActivityMapReads == <<"clusters">>
ActivityMapParts == {"clusters", "hotspots", "zone_activity", "traffic_flow"}

generate_campus_activity_map(has_db, failing) ==
    IF ~has_db THEN Returned(Some("Database session required"), NoParts)
    ELSE IF AnyFails(ActivityMapReads, failing)
    THEN Returned(Some(FirstFailing(ActivityMapReads, failing)), NoParts)
    ELSE Returned(None, AllOk(ActivityMapParts))

\* LocationService._is_valid_location
is_valid_location(latitude, longitude) ==
    /\ -900000 <= latitude /\ latitude <= 900000
    /\ -1800000 <= longitude /\ longitude <= 1800000

\* LocationService._cache_location: the value of location_cache afterwards
CacheLimit == 50
\* the slice taken as [:50], which keeps the oldest 50 in place of the last
cache_location_m(cache, session_id, location) ==
    LET before == IF session_id \in DOMAIN cache THEN cache[session_id] ELSE <<>>
        appended == Append(before, location)
        kept == IF Len(appended) > CacheLimit
                THEN SubSeq(appended, 1, CacheLimit)
                ELSE appended
    IN  [s \in DOMAIN cache \cup {session_id} |->
            IF s = session_id THEN kept ELSE cache[s]]

cache_location(cache, session_id, location) ==
    LET before == IF session_id \in DOMAIN cache THEN cache[session_id] ELSE <<>>
        appended == Append(before, location)
        kept == IF Len(appended) > CacheLimit
                THEN SubSeq(appended, Len(appended) - CacheLimit + 1, Len(appended))
                ELSE appended
    IN  [s \in DOMAIN cache \cup {session_id} |->
            IF s = session_id THEN kept ELSE cache[s]]

\* LocationService.process_location_update: _analyze_nearby_activity and
\* _analyze_movement_pattern each await one read inside their own try and
\* return {"error": str(e)} when it raises; without db both are {}
ProcessReads == <<"nearby_activity", "movement_pattern">>
ProcessParts == {"context", "nearby_activity", "movement_pattern", "recommendations"}

process_location_update(latitude, longitude, has_db, failing) ==
    IF ~is_valid_location(latitude, longitude)
    THEN Returned(Some("Invalid location coordinates"), NoParts)
    ELSE Returned(None,
            [n \in ProcessParts |->
                IF n \in {"nearby_activity", "movement_pattern"}
                THEN IF ~has_db THEN "empty"
                     ELSE IF n \in failing THEN "error" ELSE "ok"
                ELSE "ok"])

\* the location is cached only when the try block reaches _cache_location
process_location_update_cache(cache, session_id, latitude, longitude) ==
    IF ~is_valid_location(latitude, longitude) THEN cache
    ELSE cache_location(cache, session_id, <<latitude, longitude>>)

\* the history of the samples of each session for which the call returned
\* the enriched record and no error
ProcessedAfter(history, session_id, latitude, longitude, result) ==
    IF result.kind = "returned" /\ result.error = None
    THEN [s \in DOMAIN history \cup {session_id} |->
            IF s = session_id
            THEN Append(IF s \in DOMAIN history THEN history[s] ELSE <<>>,
                        <<latitude, longitude>>)
            ELSE history[s]]
    ELSE history

(***************************************************************************)
(* Report specification: one call of a composite report with a set of      *)
(* failing reads.                                                          *)
(***************************************************************************)
SeqRange(q) == { q[i] : i \in 1..Len(q) }
ReportSessions == {"s1", "s2"}
ReportPoints == { <<75227, 45198>>, <<75290, 45140>>, <<0, 0>>,
                  <<900001, 45198>>, <<75227, 1800001>> }

GetRealTimeStats ==
    /\ Idle
    /\ \E failing \in SUBSET SeqRange(RealTimeReads) :
         /\ call' = Call("get_real_time_stats", <<TRUE, failing>>)
         /\ ret' = get_real_time_stats(failing)
    /\ UNCHANGED <<location_cache, server>>

GetDemandPatterns ==
    /\ Idle
    /\ \E failing \in SUBSET SeqRange(DemandReads) :
         /\ call' = Call("get_demand_patterns", <<TRUE, failing>>)
         /\ ret' = get_demand_patterns(failing)
    /\ UNCHANGED <<location_cache, server>>

GetSafetyAnalytics ==
    /\ Idle
    /\ \E failing \in SUBSET SeqRange(SafetyReads) :
         /\ call' = Call("get_safety_analytics", <<TRUE, failing>>)
         /\ ret' = get_safety_analytics(failing)
    /\ UNCHANGED <<location_cache, server>>

GenerateCampusActivityMap ==
    /\ Idle
    /\ \E has_db \in BOOLEAN, failing \in SUBSET SeqRange(ActivityMapReads) :
         /\ call' = Call("generate_campus_activity_map", <<has_db, failing>>)
         /\ ret' = generate_campus_activity_map(has_db, failing)
    /\ UNCHANGED <<location_cache, server>>

ProcessLocationUpdate ==
    /\ Idle
    /\ \E session_id \in ReportSessions, p \in ReportPoints, has_db \in BOOLEAN,
          failing \in SUBSET SeqRange(ProcessReads) :
         /\ call' = Call("process_location_update",
                         <<has_db, failing, session_id, p[1], p[2]>>)
         /\ ret' = process_location_update(p[1], p[2], has_db, failing)
         /\ location_cache' =
                process_location_update_cache(location_cache, session_id, p[1], p[2])
         /\ processed' = ProcessedAfter(processed, session_id, p[1], p[2], ret')
    /\ UNCHANGED <<sessions, location_updates, alerts, now,
                   active_connections, tasks, delivered>>

NextReport ==
    \/ GetRealTimeStats
    \/ GetDemandPatterns
    \/ GetSafetyAnalytics
    \/ GenerateCampusActivityMap
    \/ ProcessLocationUpdate

SpecReport == Init /\ [][NextReport]_vars

\* the reads and sub-results of the report of the call
ReportOps == {"get_real_time_stats", "get_demand_patterns", "get_safety_analytics",
              "generate_campus_activity_map", "process_location_update"}
PartsOf(op) ==
    CASE op = "get_real_time_stats" -> RealTimeParts
      [] op = "get_demand_patterns" -> DemandParts
      [] op = "get_safety_analytics" -> SafetyParts
      [] op = "generate_campus_activity_map" -> ActivityMapParts
      [] op = "process_location_update" -> ProcessParts
\* the sub-result a read belongs to
PartOfRead(read) ==
    IF read \in {"active_sessions", "drivers", "passengers"} THEN "active_users" ELSE read
\* the report reaches its reads: it has a database session and, for
\* process_location_update, a coordinate in range
ReadsAttempted ==
    /\ call.op \in ReportOps
    /\ call.args[1]
    /\ call.op = "process_location_update" =>
           is_valid_location(call.args[4], call.args[5])
FailedParts == { PartOfRead(r) : r \in call.args[2] }

\* C10: in every composite report, a read failure inside one sub-computation
\* is caught there and surfaced as an error-annotated part of the result, and
\* the other sub-results are still returned; the failure never leaves the
\* call as an exception and never replaces the whole report.
C10_FailuresContained ==
    (ReadsAttempted /\ call.args[2] # {}) =>
        /\ ret.kind = "returned"
        /\ ret.error = None
        /\ DOMAIN ret.parts = PartsOf(call.op)
        /\ \A n \in PartsOf(call.op) :
              ret.parts[n] = IF n \in FailedParts THEN "error" ELSE "ok"

(***************************************************************************)
(* app/utils/location_utils.py: the analyses of the campus activity map.   *)
(* location_data is the list of (loc_update, user_role) pairs the          *)
(* functions iterate; a sample is [latitude, longitude, role].             *)
(***************************************************************************)
Sample(latitude, longitude, role) ==
    [latitude |-> latitude, longitude |-> longitude, role |-> role]

\* a / b of two numbers: the exact quotient as numerator and denominator;
\* a zero divisor raises ZeroDivisionError
ZeroDivisionError == [error |-> "ZeroDivisionError"]
TrueDiv(a, b) == IF b = 0 THEN ZeroDivisionError ELSE [num |-> a, den |-> b]

\* LocationService._determine_activity_level
determine_activity_level(user_count) ==
    IF user_count >= 10 THEN "high"
    ELSE IF user_count >= 5 THEN "medium"
    ELSE IF user_count >= 1 THEN "low"
    ELSE "none"

\* position of a key in a dict kept as the sequence of its entries, in
\* insertion order; 0 when the key is absent
KeyIndex(entries, key) ==
    IF \E k \in 1..Len(entries) : entries[k].landmark = key
    THEN CHOOSE k \in 1..Len(entries) : entries[k].landmark = key
    ELSE 0

\* the first loop of _identify_activity_hotspots: landmark_activity, keyed by
\* the string get_nearest_landmark returns
RECURSIVE LandmarkActivityLoop(_, _, _)
LandmarkActivityLoop(i, location_data, landmark_activity) ==
    IF i > Len(location_data) THEN landmark_activity
    ELSE LET loc_update == location_data[i]
             landmark == get_nearest_landmark(loc_update.latitude,
                                              loc_update.longitude, 1000)
             created ==
                 IF KeyIndex(landmark_activity, landmark) = 0
                 THEN Append(landmark_activity,
                             [landmark |-> landmark, drivers |-> 0,
                              passengers |-> 0, total |-> 0, locations |-> <<>>])
                 ELSE landmark_activity
             k == KeyIndex(created, landmark)
             activity == created[k]
             counted ==
                 [activity EXCEPT
                     !.total = @ + 1,
                     !.locations = Append(@, [lat |-> loc_update.latitude,
                                              lng |-> loc_update.longitude,
                                              role |-> loc_update.role]),
                     !.drivers = IF loc_update.role = "driver" THEN @ + 1 ELSE @,
                     !.passengers = IF loc_update.role = "driver" THEN @ ELSE @ + 1]
         IN  LandmarkActivityLoop(i + 1, location_data,
                                  [created EXCEPT ![k] = counted])

\* the second loop: the entries with at least 3 samples, in dict order
RECURSIVE HotspotsLoop(_, _, _)
HotspotsLoop(k, landmark_activity, hotspots) ==
    IF k > Len(landmark_activity) THEN hotspots
    ELSE LET activity == landmark_activity[k]
         IN  IF activity.total >= 3
             THEN HotspotsLoop(k + 1, landmark_activity,
                      Append(hotspots,
                             [landmark |-> activity.landmark,
                              total_activity |-> activity.total,
                              drivers |-> activity.drivers,
                              passengers |-> activity.passengers,
                              ratio |-> TrueDiv(activity.drivers,
                                                Max2(activity.passengers, 1)),
                              activity_level |->
                                  determine_activity_level(activity.total)]))
             ELSE HotspotsLoop(k + 1, landmark_activity, hotspots)

\* hotspots.sort(key=lambda x: x["total_activity"], reverse=True): stable
SortByTotalActivityDescending(seq) ==
    LET pairs == [k \in 1..Len(seq) |-> <<0 - seq[k].total_activity, seq[k]>>]
        sorted == SortPairsAsc(pairs, 1, <<>>)
    IN  [k \in 1..Len(seq) |-> sorted[k][2]]

\* LocationService._identify_activity_hotspots
identify_activity_hotspots(location_data) ==
    LET landmark_activity == LandmarkActivityLoop(1, location_data, <<>>)
        hotspots == SortByTotalActivityDescending(
                        HotspotsLoop(1, landmark_activity, <<>>))
    IN  SubSeq(hotspots, 1, Min2(10, Len(hotspots)))

\* LocationCluster.__init__
LocationCluster(center_lat, center_lng, radius) ==
    [center_lat |-> center_lat, center_lng |-> center_lng, radius |-> radius,
     locations |-> <<>>, user_count |-> 0]

\* mutant of add_location: the distance test is dropped
add_location_m(cluster, location) ==
    [cluster |-> [cluster EXCEPT !.locations = Append(@, location),
                                 !.user_count = @ + 1],
     added |-> TRUE]

\* LocationCluster.add_location: the cluster afterwards and the returned flag;
\* a location is the LocationPoint <<latitude, longitude, timestamp>>
add_location(cluster, location) ==
    LET distance == calculate_distance(location[1], location[2],
                                       cluster.center_lat, cluster.center_lng)
    IN  IF distance <= Meters(cluster.radius)
        THEN [cluster |-> [cluster EXCEPT !.locations = Append(@, location),
                                          !.user_count = @ + 1],
              added |-> TRUE]
        ELSE [cluster |-> cluster, added |-> FALSE]

\* the inner loop without its test of processed_locations: every sample is
\* offered to the cluster
RECURSIVE ClusterFillLoop_m(_, _, _, _)
ClusterFillLoop_m(j, location_data, cluster, processed_locations) ==
    IF j > Len(location_data)
    THEN [cluster |-> cluster, processed_locations |-> processed_locations]
    ELSE LET other_loc == location_data[j]
             r == add_location(cluster, <<other_loc.latitude, other_loc.longitude,
                                          other_loc.timestamp>>)
         IN  ClusterFillLoop_m(j + 1, location_data, r.cluster,
                 IF r.added THEN processed_locations \cup {j}
                            ELSE processed_locations)

\* the inner loop of _create_location_clusters: every sample not yet
\* processed is offered to the cluster
RECURSIVE ClusterFillLoop(_, _, _, _)
ClusterFillLoop(j, location_data, cluster, processed_locations) ==
    IF j > Len(location_data)
    THEN [cluster |-> cluster, processed_locations |-> processed_locations]
    ELSE IF j \in processed_locations
    THEN ClusterFillLoop(j + 1, location_data, cluster, processed_locations)
    ELSE LET other_loc == location_data[j]
             r == add_location(cluster, <<other_loc.latitude, other_loc.longitude,
                                          other_loc.timestamp>>)
         IN  ClusterFillLoop(j + 1, location_data, r.cluster,
                 IF r.added THEN processed_locations \cup {j}
                            ELSE processed_locations)

\* the outer loop keeping a cluster only from three members on
RECURSIVE ClusterSeedLoop_m(_, _, _, _)
ClusterSeedLoop_m(i, location_data, clusters, processed_locations) ==
    IF i > Len(location_data) THEN clusters
    ELSE IF i \in processed_locations
    THEN ClusterSeedLoop_m(i + 1, location_data, clusters, processed_locations)
    ELSE LET loc_update == location_data[i]
             seeded == add_location(
                           LocationCluster(loc_update.latitude,
                                           loc_update.longitude, 100),
                           <<loc_update.latitude, loc_update.longitude,
                             loc_update.timestamp>>).cluster
             filled == ClusterFillLoop(1, location_data, seeded,
                                       processed_locations \cup {i})
         IN  ClusterSeedLoop_m(i + 1, location_data,
                 IF filled.cluster.user_count >= 3
                 THEN Append(clusters, filled.cluster) ELSE clusters,
                 filled.processed_locations)

\* the outer loop: every sample not yet processed seeds a cluster
RECURSIVE ClusterSeedLoop(_, _, _, _)
ClusterSeedLoop(i, location_data, clusters, processed_locations) ==
    IF i > Len(location_data) THEN clusters
    ELSE IF i \in processed_locations
    THEN ClusterSeedLoop(i + 1, location_data, clusters, processed_locations)
    ELSE LET loc_update == location_data[i]
             seeded == add_location(
                           LocationCluster(loc_update.latitude,
                                           loc_update.longitude, 100),
                           <<loc_update.latitude, loc_update.longitude,
                             loc_update.timestamp>>).cluster
             filled == ClusterFillLoop(1, location_data, seeded,
                                       processed_locations \cup {i})
         IN  ClusterSeedLoop(i + 1, location_data,
                 IF filled.cluster.user_count >= 2
                 THEN Append(clusters, filled.cluster) ELSE clusters,
                 filled.processed_locations)

\* LocationService._create_location_clusters
create_location_clusters(location_data) ==
    ClusterSeedLoop(1, location_data, <<>>, {})

\* a distance of calculate_distance as a length, in units of 5 cm (for
\* distances below 2.3 km); a kilometre is 20000
Length(d2) == ISqrt(100 * d2)

\* the loop of calculate_route_efficiency over the waypoints
RECURSIVE RouteLoop(_, _, _, _)
RouteLoop(k, waypoints, current_point, total_route_distance) ==
    IF k > Len(waypoints)
    THEN [current_point |-> current_point,
          total_route_distance |-> total_route_distance]
    ELSE LET waypoint == waypoints[k]
             segment_distance ==
                 Length(calculate_distance(current_point[1], current_point[2],
                                           waypoint[1], waypoint[2]))
         IN  RouteLoop(k + 1, waypoints, waypoint,
                       total_route_distance + segment_distance)

\* LocationService._get_efficiency_rating; the ratio is num / den
get_efficiency_rating(efficiency_ratio) ==
    IF 100 * efficiency_ratio.num >= 95 * efficiency_ratio.den THEN "Excellent"
    ELSE IF 100 * efficiency_ratio.num >= 85 * efficiency_ratio.den THEN "Good"
    ELSE IF 100 * efficiency_ratio.num >= 70 * efficiency_ratio.den THEN "Fair"
    ELSE "Poor"

\* LocationService._generate_route_suggestions
generate_route_suggestions(start, end, waypoints, efficiency_ratio, current_hour) ==
    LET direct_distance == Length(calculate_distance(start[1], start[2], end[1], end[2]))
    IN  (IF 10 * efficiency_ratio.num < 8 * efficiency_ratio.den
         THEN <<"Route has significant detours. Consider optimizing waypoints.">>
         ELSE <<>>)
        \o (IF 100 * efficiency_ratio.num > 95 * efficiency_ratio.den
            THEN <<"Very efficient route with minimal detours.">> ELSE <<>>)
        \o (IF direct_distance > 3 * 20000
            THEN <<"Long distance route. Consider breaking into segments.">>
            ELSE <<>>)
        \o (IF Len(waypoints) > 5
            THEN <<"Many waypoints detected. Consider reducing stops for efficiency.">>
            ELSE <<>>)
        \o (IF (7 <= current_hour /\ current_hour <= 9)
                  \/ (16 <= current_hour /\ current_hour <= 18)
            THEN <<"Peak hours detected. Allow extra travel time.">> ELSE <<>>)

\* mutant of calculate_route_efficiency: a route of length 0 counts as
\* perfectly efficient
calculate_route_efficiency_m(start_location, end_location, waypoints, current_hour) ==
    LET direct_distance ==
            Length(calculate_distance(start_location[1], start_location[2],
                                      end_location[1], end_location[2]))
        total_route_distance ==
            IF waypoints # <<>>
            THEN LET walked == RouteLoop(1, waypoints, start_location, 0)
                     final_segment ==
                         Length(calculate_distance(walked.current_point[1],
                                                   walked.current_point[2],
                                                   end_location[1], end_location[2]))
                 IN  walked.total_route_distance + final_segment
            ELSE direct_distance
        efficiency_ratio ==
            IF total_route_distance > 0
            THEN TrueDiv(direct_distance, total_route_distance)
            ELSE [num |-> 1, den |-> 1]
        detour_distance == total_route_distance - direct_distance
    IN  [direct_distance_km |-> RoundDiv(direct_distance, 200),
         route_distance_km |-> RoundDiv(total_route_distance, 200),
         detour_distance_km |-> RoundSigned(detour_distance, 200),
         detour_percentage |->
             IF direct_distance > 0
             THEN RoundSigned(1000 * detour_distance, direct_distance) ELSE 0,
         efficiency_ratio |->
             RoundDiv(1000 * efficiency_ratio.num, efficiency_ratio.den),
         estimated_time_minutes |-> RoundDiv(total_route_distance, 500),
         efficiency_rating |-> get_efficiency_rating(efficiency_ratio),
         suggestions |-> generate_route_suggestions(start_location, end_location,
                             waypoints, efficiency_ratio, current_hour)]

\* LocationService.calculate_route_efficiency.  A point is <<latitude,
\* longitude>>, waypoints is the list (None and [] are <<>>), current_hour
\* the hour of the clock.  Returned: distances in units of 10 m (km rounded
\* to 2 decimals), the detour percentage and the time in tenths, the ratio
\* in thousandths (rounded to 3 decimals).
calculate_route_efficiency(start_location, end_location, waypoints, current_hour) ==
    LET direct_distance ==
            Length(calculate_distance(start_location[1], start_location[2],
                                      end_location[1], end_location[2]))
        total_route_distance ==
            IF waypoints # <<>>
            THEN LET walked == RouteLoop(1, waypoints, start_location, 0)
                     final_segment ==
                         Length(calculate_distance(walked.current_point[1],
                                                   walked.current_point[2],
                                                   end_location[1], end_location[2]))
                 IN  walked.total_route_distance + final_segment
            ELSE direct_distance
        efficiency_ratio ==
            IF total_route_distance > 0
            THEN TrueDiv(direct_distance, total_route_distance)
            ELSE [num |-> 0, den |-> 1]
        detour_distance == total_route_distance - direct_distance
    IN  [direct_distance_km |-> RoundDiv(direct_distance, 200),
         route_distance_km |-> RoundDiv(total_route_distance, 200),
         detour_distance_km |-> RoundSigned(detour_distance, 200),
         detour_percentage |->
             IF direct_distance > 0
             THEN RoundSigned(1000 * detour_distance, direct_distance) ELSE 0,
         efficiency_ratio |->
             RoundDiv(1000 * efficiency_ratio.num, efficiency_ratio.den),
         estimated_time_minutes |-> RoundDiv(total_route_distance, 500),
         efficiency_rating |-> get_efficiency_rating(efficiency_ratio),
         suggestions |-> generate_route_suggestions(start_location, end_location,
                             waypoints, efficiency_ratio, current_hour)]

(***************************************************************************)
(* Activity specification: one call of an analysis of the activity map on  *)
(* a list of at most MaxSamples samples.                                   *)
(***************************************************************************)
MaxSamples == 3

\* at Main Gate, 56 m south of it (near), at the Student Union Building,
\* and far from every landmark
HotspotPoints == { <<75227, 45198>>, <<75222, 45198>>, <<75245, 45203>>, <<0, 0>> }
Roles == {"driver", "passenger"}
HotspotSamples == { Sample(p[1], p[2], r) : p \in HotspotPoints, r \in Roles }

\* Main Gate and the points 44 m north, 99 m east, 100.1 m north and 500 m
\* north of it
ClusterPoints == { <<75227, 45198>>, <<75231, 45198>>, <<75227, 45207>>,
                   <<75236, 45198>>, <<75272, 45198>> }
ClusterSamples == { Sample(p[1], p[2], "passenger") : p \in ClusterPoints }
                      \cup { Sample(75227, 45198, "driver") }

SampleLists(samples) == UNION { [1..n -> samples] : n \in 0..MaxSamples }

IdentifyActivityHotspots ==
    /\ Idle
    /\ \E location_data \in SampleLists(HotspotSamples) :
         /\ call' = Call("identify_activity_hotspots", <<location_data>>)
         /\ ret' = identify_activity_hotspots(location_data)
    /\ UNCHANGED <<location_cache, server>>

\* the rows of one query: the k-th row was written at the k-th instant
Stamped(samples) ==
    [k \in 1..Len(samples) |->
        [latitude |-> samples[k].latitude, longitude |-> samples[k].longitude,
         role |-> samples[k].role, timestamp |-> k]]

CreateLocationClusters ==
    /\ Idle
    /\ \E samples \in SampleLists(ClusterSamples) :
         /\ call' = Call("create_location_clusters", <<Stamped(samples)>>)
         /\ ret' = create_location_clusters(Stamped(samples))
    /\ UNCHANGED <<location_cache, server>>

\* Main Gate, the point 220 m east of it, and points 110 m east and 33 m,
\* 56 m, 89 m and 167 m north of the line between the two
RoutePoints == { <<75227, 45198>>, <<75227, 45218>>, <<75230, 45208>>,
                 <<75232, 45208>>, <<75235, 45208>>, <<75242, 45208>> }
MaxWaypoints == 2
WaypointLists == UNION { [1..n -> RoutePoints] : n \in 0..MaxWaypoints }
ClockHours == {8, 12}

CalculateRouteEfficiency ==
    /\ Idle
    /\ \E start_location \in RoutePoints, end_location \in RoutePoints,
          waypoints \in WaypointLists, current_hour \in ClockHours :
         /\ call' = Call("calculate_route_efficiency",
                         <<start_location, end_location, waypoints, current_hour>>)
         /\ ret' = calculate_route_efficiency(start_location, end_location,
                                              waypoints, current_hour)
    /\ UNCHANGED <<location_cache, server>>

NextActivity ==
    \/ IdentifyActivityHotspots
    \/ CreateLocationClusters
    \/ CalculateRouteEfficiency

SpecActivity == Init /\ [][NextActivity]_vars

\* the catalog landmark nearest to a sample: the first one at the least
\* distance, when that distance is within the default 1 km; 0 otherwise
NearestLandmarkOf(s) ==
    LET d(i) == calculate_distance(s.latitude, s.longitude,
                                   OAU_LANDMARKS[i].lat, OAU_LANDMARKS[i].lng)
        first == CHOOSE i \in LandmarkIds :
                     /\ \A j \in LandmarkIds : d(i) <= d(j)
                     /\ \A j \in 1..(i - 1) : d(j) > d(i)
    IN  IF d(first) <= Meters(1000) THEN first ELSE 0

\* the samples of the call whose nearest landmark is landmark i, and the
\* hotspot entries of the result that stand for landmark i
SamplesNearest(i) ==
    { k \in 1..Len(call.args[1]) : NearestLandmarkOf(call.args[1][k]) = i }
HotspotsOf(i) ==
    { h \in 1..Len(ret) : ret[h].landmark.name = OAU_LANDMARKS[i].name }

\* C11: hotspots are keyed by landmark: every catalog landmark that is the
\* nearest landmark of 3 or more samples has a hotspot entry whose total is
\* the number of all samples nearest to it (the top-10 cut cannot apply to
\* fewer than 30 samples), and no landmark has more than one entry.
C11_HotspotsKeyedByLandmark ==
    call.op = "identify_activity_hotspots" =>
        \A i \in LandmarkIds :
            /\ Cardinality(HotspotsOf(i)) <= 1
            /\ Cardinality(SamplesNearest(i)) >= 3 =>
                  \E h \in HotspotsOf(i) :
                      ret[h].total_activity = Cardinality(SamplesNearest(i))

\* the distance between two <<latitude, longitude>> points
Apart(p, q) == calculate_distance(p[1], p[2], q[1], q[2])

\* C13: every returned cluster has at least 2 members, is centered on its
\* seed (its first member) and holds only members within 100 m of that
\* center; two samples 44 m apart given alone form one cluster of size 2,
\* and no cluster holds two samples 500 m apart.
C13_ClustersAroundSeed ==
    call.op = "create_location_clusters" =>
        LET location_data == call.args[1]
        IN  /\ \A c \in 1..Len(ret) :
                  /\ ret[c].user_count >= 2
                  /\ Len(ret[c].locations) = ret[c].user_count
                  /\ ret[c].locations[1][1] = ret[c].center_lat
                  /\ ret[c].locations[1][2] = ret[c].center_lng
                  /\ \E k \in 1..Len(location_data) :
                        /\ location_data[k].latitude = ret[c].center_lat
                        /\ location_data[k].longitude = ret[c].center_lng
                  /\ \A m \in 1..Len(ret[c].locations) :
                        Apart(ret[c].locations[m],
                              <<ret[c].center_lat, ret[c].center_lng>>) <= Meters(100)
                  /\ \A m, n \in 1..Len(ret[c].locations) :
                        Apart(ret[c].locations[m], ret[c].locations[n]) < Meters(500)
            /\ (/\ Len(location_data) = 2
                /\ Apart(<<location_data[1].latitude, location_data[1].longitude>>,
                         <<location_data[2].latitude, location_data[2].longitude>>)
                       <= Meters(50))
               => (Len(ret) = 1 /\ ret[1].user_count = 2)

\* C13 witness: of three samples, the two 44 m apart form the one cluster
\* and the sample 500 m away is left out.
C13_Witness ==
    /\ call.op = "create_location_clusters"
    /\ Len(call.args[1]) = 3
    /\ Len(ret) = 1
    /\ ret[1].user_count = 2
    /\ ret[1].locations[1] # ret[1].locations[2]
    /\ \E k \in 1..3 :
          Apart(<<call.args[1][k].latitude, call.args[1][k].longitude>>,
                <<ret[1].center_lat, ret[1].center_lng>>) >= Meters(500)

\* the length of the route of a calculate_route_efficiency call: the sum of
\* the legs start - waypoints - end; and its direct length
Leg(p, q) == Length(Apart(p, q))
RouteStops == <<call.args[1]>> \o call.args[3] \o <<call.args[2]>>
RouteLength ==
    SumOver(1..(Len(RouteStops) - 1),
            [k \in 1..(Len(RouteStops) - 1) |-> Leg(RouteStops[k], RouteStops[k + 1])])
DirectLength == Leg(call.args[1], call.args[2])

\* C20: the efficiency ratio is direct/route for a route of positive length
\* and 0 for one of length 0; the rating is Excellent from 0.95, Good from
\* 0.85, Fair from 0.70, else Poor; a route without waypoints between
\* distinct endpoints has route = direct, ratio 1 and rating Excellent; a
\* route of length 0 has ratio 0 and rating Poor.
C20_RouteEfficiency ==
    call.op = "calculate_route_efficiency" =>
        /\ ret.efficiency_ratio =
               IF RouteLength > 0 THEN RoundDiv(1000 * DirectLength, RouteLength) ELSE 0
        /\ ret.efficiency_rating =
               IF RouteLength = 0 THEN "Poor"
               ELSE IF 100 * DirectLength >= 95 * RouteLength THEN "Excellent"
               ELSE IF 100 * DirectLength >= 85 * RouteLength THEN "Good"
               ELSE IF 100 * DirectLength >= 70 * RouteLength THEN "Fair"
               ELSE "Poor"
        /\ (call.args[3] = <<>> /\ call.args[1] # call.args[2]) =>
               /\ ret.route_distance_km = ret.direct_distance_km
               /\ ret.efficiency_ratio = 1000
               /\ ret.efficiency_rating = "Excellent"
        /\ RouteLength = 0 =>
               /\ ret.efficiency_ratio = 0
               /\ ret.efficiency_rating = "Poor"

\* C20 witness: the route from a point to itself without waypoints has
\* length 0, ratio 0 and rating Poor.
C20_Witness ==
    /\ call.op = "calculate_route_efficiency"
    /\ call.args[1] = call.args[2]
    /\ call.args[3] = <<>>
    /\ ret.route_distance_km = 0
    /\ ret.efficiency_ratio = 0
    /\ ret.efficiency_rating = "Poor"

(***************************************************************************)
(* app/core/analytics.py: the computations of the analytics reports.       *)
(* A percentage or score that the code rounds to one decimal is kept in    *)
(* tenths (60.0 is 600).  A query result read through                      *)
(* result.scalars().all() and unpacked in the loop as pairs is given as    *)
(* rows, the pairs the query selects, and as_pairs (see                    *)
(* get_nearby_drivers): when the elements are not pairs the unpacking of   *)
(* the first one raises TypeError.                                         *)
(***************************************************************************)
TypeError == "TypeError"

\* dict.get(key, default) on a dict kept as a function
Get(dict, key, default) == IF key \in DOMAIN dict THEN dict[key] ELSE default

\* the dict a loop "for key, value in rows" builds (later rows overwrite)
DictOfRows(rows) ==
    [key \in { rows[k][1] : k \in 1..Len(rows) } |->
        rows[CHOOSE k \in 1..Len(rows) :
                 /\ rows[k][1] = key
                 /\ \A j \in (k + 1)..Len(rows) : rows[j][1] # key][2]]

\* CampusAnalytics._get_demand_recommendation
get_demand_recommendation(predicted_demand) ==
    CASE predicted_demand = "high" ->
             "More drivers needed. Consider incentivizing driver participation."
      [] predicted_demand = "medium" ->
             "Moderate activity expected. Current driver count should suffice."
      [] predicted_demand = "low" ->
             "Low demand period. Good time for driver breaks or maintenance."
      [] OTHER -> "Monitor situation closely."

\* CampusAnalytics._generate_demand_predictions; scalar is what
\* scalar_one_or_none() returns: None or Some(count)
generate_demand_predictions(scalar) ==
    LET historical_count == IF scalar = None THEN 0 ELSE scalar[1]
        predicted_demand == IF historical_count > 20 THEN "high"
                            ELSE IF historical_count > 10 THEN "medium"
                            ELSE "low"
    IN  [next_hour_demand |-> predicted_demand,
         confidence |-> "low",
         recommendation |-> get_demand_recommendation(predicted_demand)]

\* mutant of determine_overall_bike_status: the thresholds are exclusive
determine_overall_bike_status_m(stats) ==
    IF stats = <<>> THEN "unknown"
    ELSE LET high_percentage == Get(Get(stats, "high", <<>>), "percentage", 0)
             medium_percentage == Get(Get(stats, "medium", <<>>), "percentage", 0)
             low_percentage == Get(Get(stats, "low", <<>>), "percentage", 0)
             none_percentage == Get(Get(stats, "none", <<>>), "percentage", 0)
         IN  IF high_percentage > 500 THEN "excellent"
             ELSE IF high_percentage + medium_percentage > 600 THEN "good"
             ELSE IF low_percentage + none_percentage > 600 THEN "poor"
             ELSE "moderate"

\* CampusAnalytics._determine_overall_bike_status; stats maps an
\* availability level to [count, percentage], {} is <<>>
determine_overall_bike_status(stats) ==
    IF stats = <<>> THEN "unknown"
    ELSE LET high_percentage == Get(Get(stats, "high", <<>>), "percentage", 0)
             medium_percentage == Get(Get(stats, "medium", <<>>), "percentage", 0)
             low_percentage == Get(Get(stats, "low", <<>>), "percentage", 0)
             none_percentage == Get(Get(stats, "none", <<>>), "percentage", 0)
         IN  IF high_percentage >= 500 THEN "excellent"
             ELSE IF high_percentage + medium_percentage >= 600 THEN "good"
             ELSE IF low_percentage + none_percentage >= 600 THEN "poor"
             ELSE "moderate"

\* the stats dict of _get_bike_availability_stats:
\* percentage = round((count / total_reports) * 100, 1)
BikeStats(availability_data, total_reports) ==
    LET counts == DictOfRows(availability_data)
    IN  [availability \in DOMAIN counts |->
            [count |-> counts[availability],
             percentage |-> RoundDiv(counts[availability] * 1000, total_reports)]]

\* CampusAnalytics._get_bike_availability_stats, after its query
get_bike_availability_stats(availability_data, as_pairs) ==
    IF availability_data # <<>> /\ ~as_pairs THEN Raised(TypeError)
    ELSE LET total_reports ==
                 SumOver(1..Len(availability_data),
                         [k \in 1..Len(availability_data) |-> availability_data[k][2]])
         IN  IF total_reports = 0 THEN [status |-> "no_recent_data"]
             ELSE LET stats == BikeStats(availability_data, total_reports)
                  IN  [total_reports |-> total_reports,
                       distribution |-> stats,
                       overall_status |-> determine_overall_bike_status(stats)]

\* mutant of calculate_safety_score: the floor at 0 is dropped
calculate_safety_score_m(recent_emergencies) ==
    LET emergency_penalty == Len(recent_emergencies) * 5
        unresolved_count ==
            Cardinality({ k \in 1..Len(recent_emergencies) :
                            ~recent_emergencies[k].is_resolved })
        unresolved_penalty == unresolved_count * 10
        response_penalty == 0
    IN  10 * (100 - emergency_penalty - unresolved_penalty - response_penalty)

\* CampusAnalytics._calculate_safety_score, in tenths
calculate_safety_score(recent_emergencies) ==
    LET emergency_penalty == Len(recent_emergencies) * 5
        unresolved_count ==
            Cardinality({ k \in 1..Len(recent_emergencies) :
                            ~recent_emergencies[k].is_resolved })
        unresolved_penalty == unresolved_count * 10
        response_penalty == 0
    IN  10 * Max2(0, 100 - emergency_penalty - unresolved_penalty - response_penalty)

\* max(d.items(), key=lambda x: x[1])[0] and min(...)[0] for a dict with the
\* keys 0..23 in this order: the first key holding the extreme value
FirstMaxKey(d) ==
    CHOOSE h \in DOMAIN d : /\ \A g \in DOMAIN d : d[g] <= d[h]
                            /\ \A g \in DOMAIN d : g < h => d[g] < d[h]
FirstMinKey(d) ==
    CHOOSE h \in DOMAIN d : /\ \A g \in DOMAIN d : d[g] >= d[h]
                            /\ \A g \in DOMAIN d : g < h => d[g] > d[h]

\* CampusAnalytics._analyze_hourly_demand, after its query
analyze_hourly_demand(rows, as_pairs) ==
    IF rows # <<>> /\ ~as_pairs THEN Raised(TypeError)
    ELSE LET hourly_data == DictOfRows(rows)
             complete_hourly == [hour \in 0..23 |-> Get(hourly_data, hour, 0)]
         IN  [hourly_distribution |-> complete_hourly,
              peak_hour |-> FirstMaxKey(complete_hourly),
              lowest_hour |-> FirstMinKey(complete_hourly),
              average_hourly |-> TrueDiv(SumOver(0..23, complete_hourly), 24)]

(***************************************************************************)
(* Analytics specification: one call of a computation of the analytics     *)
(* reports on a bounded query result.                                      *)
(***************************************************************************)
MaxHistorical == 22     \* largest historical session count
MaxReports == 4         \* largest number of reports of one availability level
MaxAlerts == 10         \* largest number of emergency alerts
MaxHourRows == 2        \* largest number of hours holding sessions
MaxHourly == 2          \* largest session count of one hour

HistoricalScalars == {None} \cup { Some(c) : c \in 0..MaxHistorical }

\* BikeAvailability, and the rows (availability, count) of the grouped query
\* for the numbers of reports of each level
Levels == <<"high", "medium", "low", "none">>
ReportCounts == [{"high", "medium", "low", "none"} -> 0..MaxReports]
AvailabilityRows(counts) ==
    LET present == SelectSeq(Levels, LAMBDA l : counts[l] > 0)
    IN  [k \in 1..Len(present) |-> <<present[k], counts[present[k]]>>]
TotalReports(counts) ==
    counts["high"] + counts["medium"] + counts["low"] + counts["none"]

\* the emergency alerts of the last 30 days
RECURSIVE Repeat(_, _)
Repeat(x, n) == IF n = 0 THEN <<>> ELSE <<x>> \o Repeat(x, n - 1)
Alert(is_resolved, authorities_notified) ==
    [is_resolved |-> is_resolved, authorities_notified |-> authorities_notified]
AlertLists ==
    { Repeat(Alert(TRUE, TRUE), c[1]) \o Repeat(Alert(TRUE, FALSE), c[2])
          \o Repeat(Alert(FALSE, TRUE), c[3]) \o Repeat(Alert(FALSE, FALSE), c[4]) :
        c \in { d \in [1..4 -> 0..MaxAlerts] : d[1] + d[2] + d[3] + d[4] <= MaxAlerts } }

\* the rows (hour, passenger_count) of the query grouped and ordered by hour
HourRowLists ==
    UNION { { rows \in [1..n -> (0..23) \X (1..MaxHourly)] :
                \A k \in 1..(n - 1) : rows[k][1] < rows[k + 1][1] } :
            n \in 0..MaxHourRows }

GenerateDemandPredictions ==
    /\ Idle
    /\ \E scalar \in HistoricalScalars :
         /\ call' = Call("generate_demand_predictions", <<scalar>>)
         /\ ret' = generate_demand_predictions(scalar)
    /\ UNCHANGED <<location_cache, server>>

DetermineOverallBikeStatus ==
    /\ Idle
    /\ \E counts \in ReportCounts :
         LET stats == IF TotalReports(counts) = 0 THEN <<>>
                      ELSE BikeStats(AvailabilityRows(counts), TotalReports(counts))
         IN  /\ call' = Call("determine_overall_bike_status", <<stats>>)
             /\ ret' = determine_overall_bike_status(stats)
    /\ UNCHANGED <<location_cache, server>>

GetBikeAvailabilityStats ==
    /\ Idle
    /\ \E counts \in ReportCounts, as_pairs \in BOOLEAN :
         /\ call' = Call("get_bike_availability_stats",
                         <<AvailabilityRows(counts), as_pairs>>)
         /\ ret' = get_bike_availability_stats(AvailabilityRows(counts), as_pairs)
    /\ UNCHANGED <<location_cache, server>>

CalculateSafetyScore ==
    /\ Idle
    /\ \E recent_emergencies \in AlertLists :
         /\ call' = Call("calculate_safety_score", <<recent_emergencies>>)
         /\ ret' = calculate_safety_score(recent_emergencies)
    /\ UNCHANGED <<location_cache, server>>

AnalyzeHourlyDemand ==
    /\ Idle
    /\ \E rows \in HourRowLists, as_pairs \in BOOLEAN :
         /\ call' = Call("analyze_hourly_demand", <<rows, as_pairs>>)
         /\ ret' = analyze_hourly_demand(rows, as_pairs)
    /\ UNCHANGED <<location_cache, server>>

NextAnalytics ==
    \/ GenerateDemandPredictions
    \/ DetermineOverallBikeStatus
    \/ GetBikeAvailabilityStats
    \/ CalculateSafetyScore
    \/ AnalyzeHourlyDemand

SpecAnalytics == Init /\ [][NextAnalytics]_vars

\* C12: the predicted demand for a historical count c is "low" when c < 10,
\* "medium" when 10 <= c <= 20 and "high" when c > 20 (c = 10 yields
\* "medium"), and the confidence is always "low".
C12_DemandBuckets ==
    call.op = "generate_demand_predictions" =>
        LET c == IF call.args[1] = None THEN 0 ELSE call.args[1][1]
        IN  /\ ret.next_hour_demand = IF c < 10 THEN "low"
                                      ELSE IF c <= 20 THEN "medium"
                                      ELSE "high"
            /\ ret.confidence = "low"

\* the percentage (in tenths) of a level in the distribution of the call
PercentageOf(level) ==
    IF level \in DOMAIN call.args[1] THEN call.args[1][level].percentage ELSE 0

\* C14: for a non-empty distribution the status is "excellent" exactly when
\* high% >= 50; "good" exactly when that fails and high%+medium% >= 60;
\* "poor" exactly when both fail and low%+none% >= 60; "moderate" otherwise.
C14_FirstThresholdDecides ==
    (call.op = "determine_overall_bike_status" /\ call.args[1] # <<>>) =>
        LET excellent == PercentageOf("high") >= 500
            good == PercentageOf("high") + PercentageOf("medium") >= 600
            poor == PercentageOf("low") + PercentageOf("none") >= 600
        IN  /\ (ret = "excellent") <=> excellent
            /\ (ret = "good") <=> (~excellent /\ good)
            /\ (ret = "poor") <=> (~excellent /\ ~good /\ poor)
            /\ (ret = "moderate") <=> (~excellent /\ ~good /\ ~poor)

\* C14 witness: {high: 50%, none: 50%} is on the excellent threshold and
\* is reported excellent.
C14_Witness ==
    /\ call.op = "determine_overall_bike_status"
    /\ call.args[1] # <<>>
    /\ PercentageOf("high") = 500
    /\ PercentageOf("none") = 500
    /\ ret = "excellent"

\* C15: with an empty distribution (no report in the window) the status is
\* "no_recent_data", in the bike-availability report and in the status
\* function applied to the empty distribution.
C15_EmptyIsNoRecentData ==
    /\ (call.op = "get_bike_availability_stats" /\ call.args[1] = <<>>)
           => ret = [status |-> "no_recent_data"]
    /\ (call.op = "determine_overall_bike_status" /\ call.args[1] = <<>>)
           => ret = "no_recent_data"

\* the incidents of a calculate_safety_score call, and the unresolved ones
TotalIncidents == Len(call.args[1])
UnresolvedIncidents ==
    Cardinality({ k \in 1..Len(call.args[1]) : ~call.args[1][k].is_resolved })

\* C16: the safety score is max(0, 100 - 5*total - 10*unresolved): it lies
\* in [0, 100], is 100.0 without incidents and 30.0 for 10 incidents of
\* which 2 are unresolved.
C16_SafetyScoreFloored ==
    call.op = "calculate_safety_score" =>
        LET raw == 100 - 5 * TotalIncidents - 10 * UnresolvedIncidents
        IN  /\ ret = IF raw < 0 THEN 0 ELSE 10 * raw
            /\ 0 <= ret /\ ret <= 1000
            /\ TotalIncidents = 0 => ret = 1000
            /\ (TotalIncidents = 10 /\ UnresolvedIncidents = 2) => ret = 300

\* C16 witness: the penalties of 8 unresolved incidents exceed 100 and the
\* score is 0.
C16_Witness ==
    /\ call.op = "calculate_safety_score"
    /\ TotalIncidents = 8
    /\ UnresolvedIncidents = 8
    /\ ret = 0

\* C19: the hourly distribution has exactly the keys 0..23, holding the
\* count of every hour with data and 0 for every other hour, for every
\* query result; peak hour and lowest hour are keys holding its maximum and
\* its minimum.
C19_HourlyDistributionComplete ==
    call.op = "analyze_hourly_demand" =>
        /\ "hourly_distribution" \in DOMAIN ret
        /\ DOMAIN ret.hourly_distribution = 0..23
        /\ \A h \in 0..23 :
              ret.hourly_distribution[h] =
                  IF \E k \in 1..Len(call.args[1]) : call.args[1][k][1] = h
                  THEN SumOver({ k \in 1..Len(call.args[1]) : call.args[1][k][1] = h },
                               [k \in 1..Len(call.args[1]) |-> call.args[1][k][2]])
                  ELSE 0
        /\ ret.peak_hour \in 0..23
        /\ ret.lowest_hour \in 0..23
        /\ \A h \in 0..23 :
              /\ ret.hourly_distribution[h] <= ret.hourly_distribution[ret.peak_hour]
              /\ ret.hourly_distribution[h] >= ret.hourly_distribution[ret.lowest_hour]

(***************************************************************************)
(* The ratios and percentages of the reports.                               *)
(***************************************************************************)
\* round(r, digits) of a quotient r, as the number of units 1/scale
\* (scale = 100 for 2 digits); a raised error stays what it is
RoundTo(r, scale) ==
    IF r = ZeroDivisionError THEN r
    ELSE [num |-> RoundDiv(scale * r.num, r.den), den |-> scale]

\* "scalar_one_or_none() or 0"
OrZero(scalar) == IF scalar = None THEN 0 ELSE scalar[1]

\* mutant of active_users: the driver count is not floored at 1
active_users_m(total_scalar, drivers_scalar, passengers_scalar) ==
    LET total_active == OrZero(total_scalar)
        active_drivers == OrZero(drivers_scalar)
        active_passengers == OrZero(passengers_scalar)
    IN  [total |-> total_active,
         drivers |-> active_drivers,
         passengers |-> active_passengers,
         ratio |-> RoundTo(TrueDiv(active_passengers, active_drivers), 100)]

\* the "active_users" entry of CampusAnalytics.get_real_time_stats, from the
\* three counts its queries return
active_users(total_scalar, drivers_scalar, passengers_scalar) ==
    LET total_active == OrZero(total_scalar)
        active_drivers == OrZero(drivers_scalar)
        active_passengers == OrZero(passengers_scalar)
    IN  [total |-> total_active,
         drivers |-> active_drivers,
         passengers |-> active_passengers,
         ratio |-> RoundTo(TrueDiv(active_passengers, Max2(active_drivers, 1)), 100)]

\* the number of elements of seq that equal x
CountOf(seq, x) == Cardinality({ k \in 1..Len(seq) : seq[k] = x })

\* max(counts.items(), key=lambda x: x[1])[0] for the dict that counts the
\* elements of seq, in the order of their first occurrence
MostCommon(seq) ==
    seq[CHOOSE k \in 1..Len(seq) :
            /\ \A j \in 1..Len(seq) : CountOf(seq, seq[j]) <= CountOf(seq, seq[k])
            /\ \A j \in 1..(k - 1) : CountOf(seq, seq[j]) < CountOf(seq, seq[k])]

\* LocationService._analyze_bike_availability
analyze_bike_availability(bike_reports) ==
    IF bike_reports = <<>> THEN "unknown" ELSE MostCommon(bike_reports)

\* LocationService._analyze_nearby_activity, after its query.  A row is
\* [latitude, longitude, role, bike_availability]; timestamps are left out,
\* and with them the "last_activity" entry.
analyze_nearby_activity(latitude, longitude, rows, as_pairs, radius) ==
    IF rows # <<>> /\ ~as_pairs THEN [error |-> TypeError]
    ELSE LET nearby_locations ==
                 SelectSeq(rows, LAMBDA loc_update :
                     calculate_distance(latitude, longitude,
                                        loc_update.latitude, loc_update.longitude)
                         <= Meters(radius))
             driver_count ==
                 Cardinality({ k \in 1..Len(nearby_locations) :
                                 nearby_locations[k].role = "driver" })
             passenger_count ==
                 Cardinality({ k \in 1..Len(nearby_locations) :
                                 nearby_locations[k].role = "passenger" })
             with_report == SelectSeq(nearby_locations,
                                LAMBDA loc : loc.bike_availability # None)
             bike_reports == [k \in 1..Len(with_report) |->
                                 with_report[k].bike_availability[1]]
         IN  [radius_meters |-> radius,
              total_nearby_users |-> Len(nearby_locations),
              drivers_nearby |-> driver_count,
              passengers_nearby |-> passenger_count,
              driver_passenger_ratio |-> TrueDiv(driver_count, Max2(passenger_count, 1)),
              bike_availability_status |-> analyze_bike_availability(bike_reports),
              activity_level |-> determine_activity_level(Len(nearby_locations))]

\* LocationService._analyze_traffic_flow
analyze_traffic_flow(location_data) ==
    LET total_movements == Len(location_data)
        unique_locations ==
            Cardinality({ <<location_data[k].latitude, location_data[k].longitude>> :
                            k \in 1..Len(location_data) })
    IN  [total_movements |-> total_movements,
         unique_locations |-> unique_locations,
         movement_density |-> TrueDiv(total_movements, Max2(unique_locations, 1)),
         flow_analysis |-> "Basic flow analysis - upgrade needed for detailed patterns"]

\* CampusAnalytics._calculate_response_rate, in tenths
calculate_response_rate(emergencies) ==
    IF emergencies = <<>> THEN 1000
    ELSE LET responded_count ==
                 Cardinality({ k \in 1..Len(emergencies) :
                                 emergencies[k].authorities_notified })
         IN  RoundDiv(responded_count * 1000, Len(emergencies))

\* the landmark labels of the locations, and the items of the dict
\* landmark_count in the order of their first occurrence
LabelsOf(locations) ==
    [k \in 1..Len(locations) |-> get_nearest_landmark(locations[k][1],
                                                      locations[k][2], 1000)]
LandmarkCountItems(labels) ==
    LET firsts == SelectSeq([k \in 1..Len(labels) |-> k],
                            LAMBDA k : \A j \in 1..(k - 1) : labels[j] # labels[k])
    IN  [i \in 1..Len(firsts) |->
            [location |-> labels[firsts[i]],
             activity_count |-> CountOf(labels, labels[firsts[i]])]]

\* sorted(landmark_count.items(), key=lambda x: x[1], reverse=True): stable
SortByCountDescending(seq) ==
    LET pairs == [k \in 1..Len(seq) |-> <<0 - seq[k].activity_count, seq[k]>>]
        sorted == SortPairsAsc(pairs, 1, <<>>)
    IN  [k \in 1..Len(seq) |-> sorted[k][2]]

\* CampusAnalytics._get_popular_locations, after its query; a location is
\* <<latitude, longitude>>, percentages are in tenths
get_popular_locations(locations) ==
    LET sorted == SortByCountDescending(LandmarkCountItems(LabelsOf(locations)))
        popular_locations == SubSeq(sorted, 1, Min2(10, Len(sorted)))
    IN  [k \in 1..Len(popular_locations) |->
            [location |-> popular_locations[k].location,
             activity_count |-> popular_locations[k].activity_count,
             percentage |->
                 IF locations # <<>>
                 THEN RoundDiv(popular_locations[k].activity_count * 1000,
                               Len(locations))
                 ELSE 0]]

(***************************************************************************)
(* Ratio specification: one call of a computation that divides.            *)
(***************************************************************************)
MaxUsers == 3       \* largest count of active sessions of one role
UserScalars == {None} \cup { Some(c) : c \in 0..MaxUsers }

\* location updates at the observed point and 600 m from it, of both roles,
\* without and with a bike availability report
NearbyRow(p, role, bike_availability) ==
    [latitude |-> p[1], longitude |-> p[2], role |-> role,
     bike_availability |-> bike_availability]
NearbyRows ==
    { NearbyRow(p, r, b) : p \in { <<75227, 45198>>, <<75281, 45198>> }, r \in Roles,
                           b \in { None, Some("high"), Some("none") } }
NearbyRowLists == UNION { [1..n -> NearbyRows] : n \in 0..MaxSamples }

LocationLists == UNION { [1..n -> HotspotPoints] : n \in 0..MaxSamples }

ActiveUsers ==
    /\ Idle
    /\ \E total \in UserScalars, drivers \in UserScalars, passengers \in UserScalars :
         /\ call' = Call("active_users", <<total, drivers, passengers>>)
         /\ ret' = active_users(total, drivers, passengers)
    /\ UNCHANGED <<location_cache, server>>

AnalyzeNearbyActivity ==
    /\ Idle
    /\ \E rows \in NearbyRowLists, as_pairs \in BOOLEAN :
         /\ call' = Call("analyze_nearby_activity",
                         <<75227, 45198, rows, as_pairs, 500>>)
         /\ ret' = analyze_nearby_activity(75227, 45198, rows, as_pairs, 500)
    /\ UNCHANGED <<location_cache, server>>

AnalyzeTrafficFlow ==
    /\ Idle
    /\ \E location_data \in SampleLists(HotspotSamples) :
         /\ call' = Call("analyze_traffic_flow", <<location_data>>)
         /\ ret' = analyze_traffic_flow(location_data)
    /\ UNCHANGED <<location_cache, server>>

CalculateResponseRate ==
    /\ Idle
    /\ \E emergencies \in AlertLists :
         /\ call' = Call("calculate_response_rate", <<emergencies>>)
         /\ ret' = calculate_response_rate(emergencies)
    /\ UNCHANGED <<location_cache, server>>

GetPopularLocations ==
    /\ Idle
    /\ \E locations \in LocationLists :
         /\ call' = Call("get_popular_locations", <<locations>>)
         /\ ret' = get_popular_locations(locations)
    /\ UNCHANGED <<location_cache, server>>

NextRatios ==
    \/ ActiveUsers
    \/ AnalyzeNearbyActivity
    \/ IdentifyActivityHotspots
    \/ AnalyzeTrafficFlow
    \/ GetBikeAvailabilityStats
    \/ GetPopularLocations
    \/ CalculateResponseRate
    \/ CalculateRouteEfficiency

SpecRatios == Init /\ [][NextRatios]_vars

\* a quotient was computed (its divisor was not zero), and it equals n
Defined(r) == r # ZeroDivisionError /\ r.den # 0
Equals(r, n) == r.num = n * r.den

\* C18: every ratio the reports compute has a non-zero denominator, for
\* every snapshot including the empty ones: with zero active drivers the
\* passenger:driver ratio is the passenger count; with zero passengers the
\* driver:passenger ratios of nearby activity and of hotspots are the
\* driver count; percentages, movement density, response rate and
\* efficiency ratio have a value when their counts or distances are zero.
C18_NoZeroDenominator ==
    /\ call.op = "active_users" =>
          /\ Defined(ret.ratio)
          /\ ret.drivers = 0 => Equals(ret.ratio, ret.passengers)
    /\ (call.op = "analyze_nearby_activity" /\ "error" \notin DOMAIN ret) =>
          /\ Defined(ret.driver_passenger_ratio)
          /\ ret.passengers_nearby = 0 =>
                Equals(ret.driver_passenger_ratio, ret.drivers_nearby)
    /\ call.op = "identify_activity_hotspots" =>
          \A h \in 1..Len(ret) :
              /\ Defined(ret[h].ratio)
              /\ ret[h].passengers = 0 => Equals(ret[h].ratio, ret[h].drivers)
    /\ call.op = "analyze_traffic_flow" =>
          /\ Defined(ret.movement_density)
          /\ call.args[1] = <<>> => Equals(ret.movement_density, 0)
    /\ (call.op = "get_bike_availability_stats" /\ "kind" \notin DOMAIN ret) =>
          IF call.args[1] = <<>> THEN ret = [status |-> "no_recent_data"]
          ELSE \A l \in DOMAIN ret.distribution :
                   ret.distribution[l].percentage \in 0..1000
    /\ call.op = "get_popular_locations" =>
          /\ call.args[1] = <<>> => ret = <<>>
          /\ \A k \in 1..Len(ret) : ret[k].percentage \in 0..1000
    /\ call.op = "calculate_response_rate" =>
          /\ ret \in 0..1000
          /\ call.args[1] = <<>> => ret = 1000
    /\ (call.op = "calculate_route_efficiency" /\ DirectLength = 0) =>
          /\ ret.detour_percentage = 0
          /\ RouteLength = 0 => ret.efficiency_ratio = 0

\* C18 witness: 2 active passengers and no active driver give the ratio 2.
C18_Witness ==
    /\ call.op = "active_users"
    /\ ret.drivers = 0
    /\ ret.passengers = 2
    /\ Defined(ret.ratio)
    /\ Equals(ret.ratio, 2)

(***************************************************************************)
(* Score specification: one call of _calculate_pickup_score for a catalog  *)
(* landmark, annotated with its rounded distance to the passenger, and the *)
(* list of the drivers found near the passenger.                           *)
(***************************************************************************)
MaxScoreDrivers == 2

\* distances in metres, on both sides of the 2 km where the score is clamped
ScoreDistances == {0, 1, 500, 1000, 1999, 2000, 2001, 3000}
DriverDistances == {400, 600}
ScoreDrivers ==
    { [session_id |-> "d1", distance_meters |-> d,
       location |-> [lat |-> OAU_CENTER_LAT, lng |-> OAU_CENTER_LNG]] :
        d \in DriverDistances }
ScoreDriverLists == UNION { [1..n -> ScoreDrivers] : n \in 0..MaxScoreDrivers }

ScoredLandmark(i, d) ==
    [id |-> OAU_LANDMARKS[i].id,
     lat |-> OAU_LANDMARKS[i].lat, lng |-> OAU_LANDMARKS[i].lng,
     name |-> OAU_LANDMARKS[i].name, type |-> OAU_LANDMARKS[i].type,
     distance_meters |-> d]

CalculatePickupScore ==
    /\ Idle
    /\ \E i \in LandmarkIds, d \in ScoreDistances, drivers \in ScoreDriverLists :
         /\ call' = Call("calculate_pickup_score", <<ScoredLandmark(i, d), drivers>>)
         /\ ret' = calculate_pickup_score(ScoredLandmark(i, d), drivers)
    /\ UNCHANGED <<location_cache, server>>

NextScore == CalculatePickupScore

SpecScore == Init /\ [][NextScore]_vars

\* the drivers of a list that count for a landmark
DriverCount(drivers) ==
    Cardinality({ k \in 1..Len(drivers) : drivers[k].distance_meters <= 500 })

\* the candidates that agree with the scored landmark in driver count,
\* category and safe-list membership and are strictly closer to the passenger
CloserCandidates ==
    { c \in LandmarkIds \X ScoreDistances \X ScoreDriverLists :
        /\ OAU_LANDMARKS[c[1]].type = call.args[1].type
        /\ (OAU_LANDMARKS[c[1]].id \in safety_landmarks)
              <=> (call.args[1].id \in safety_landmarks)
        /\ DriverCount(c[3]) = DriverCount(call.args[2])
        /\ c[2] < call.args[1].distance_meters }

\* C21: of two candidate landmarks with the same driver count, category and
\* safe-list membership, the one strictly closer to the passenger never has
\* the lower total score, beyond 2 km included.
C21_CloserNeverScoresLower ==
    call.op = "calculate_pickup_score" =>
        \A c \in CloserCandidates :
            calculate_pickup_score(ScoredLandmark(c[1], c[2]), c[3]).total_score
                >= ret.total_score

\* a landmark 3 km away is scored, and both a closer one beyond 2 km with
\* the same score and one within 2 km with a higher score exist
C21_Witness ==
    /\ call.op = "calculate_pickup_score"
    /\ call.args[1].distance_meters = 3000
    /\ \E c \in CloserCandidates :
          /\ c[2] > 2000
          /\ c[1] # CHOOSE i \in LandmarkIds : OAU_LANDMARKS[i].id = call.args[1].id
          /\ calculate_pickup_score(ScoredLandmark(c[1], c[2]), c[3]).total_score
                = ret.total_score
    /\ \E c \in CloserCandidates :
          /\ c[2] < 2000
          /\ calculate_pickup_score(ScoredLandmark(c[1], c[2]), c[3]).total_score
                > ret.total_score

(***************************************************************************)
(* Cache specification: a sequence of process_location_update calls on one *)
(* LocationService.  Each session reports the positions of its own path,   *)
(* one after the other, or a coordinate out of range.                      *)
(***************************************************************************)
MaxProcessed == 52      \* samples a session gets processed: beyond the 50 kept

\* the k-th position of the path of a session
PathPoint(session_id, k) ==
    <<75000 + k, IF session_id = "s1" THEN 45198 ELSE 45240>>
OutOfRangePoints == { <<900001, 45198>>, <<75227, 1800001>> }

ProcessedCount(session_id) ==
    IF session_id \in DOMAIN processed THEN Len(processed[session_id]) ELSE 0

ProcessLocationSample ==
    /\ \E session_id \in ReportSessions, has_db \in BOOLEAN :
        \E p \in {PathPoint(session_id, ProcessedCount(session_id) + 1)}
                    \cup OutOfRangePoints :
         /\ is_valid_location(p[1], p[2]) => ProcessedCount(session_id) < MaxProcessed
         /\ call' = Call("process_location_update", <<has_db, {}, session_id, p[1], p[2]>>)
         /\ ret' = process_location_update(p[1], p[2], has_db, {})
         /\ location_cache' =
                process_location_update_cache(location_cache, session_id, p[1], p[2])
         /\ processed' = ProcessedAfter(processed, session_id, p[1], p[2], ret')
    /\ UNCHANGED <<sessions, location_updates, alerts, now,
                   active_connections, tasks, delivered>>

NextCache == ProcessLocationSample

SpecCache == Init /\ [][NextCache]_vars

\* the last n elements of a sequence
LastOf(q, n) == SubSeq(q, Len(q) - n + 1, Len(q))

\* the cache holds, per session, the most recent min(n, 50) processed samples
CacheIsRecentHistory ==
    /\ DOMAIN location_cache = DOMAIN processed
    /\ \A s \in DOMAIN location_cache :
          /\ Len(location_cache[s]) <= 50
          /\ location_cache[s] = LastOf(processed[s], Min2(Len(processed[s]), 50))

\* a step of a call leaves the other sessions' histories alone, and a call
\* rejected for its coordinate returns an error record and changes nothing
CacheStep ==
    /\ \A s \in DOMAIN location_cache :
          s # call'.args[3] =>
              s \in DOMAIN location_cache' /\ location_cache'[s] = location_cache[s]
    /\ ~is_valid_location(call'.args[4], call'.args[5]) =>
          /\ ret'.kind = "returned"
          /\ ret'.error # None
          /\ location_cache' = location_cache

\* C22: after any sequence of process_location_update calls the cache holds,
\* for every session key, exactly the most recent min(n, 50) successfully
\* processed samples in arrival order and never more than 50; a call for one
\* session leaves every other session's cached history unchanged, and a call
\* rejected for an out-of-range coordinate leaves the cache unchanged and
\* returns an error record instead of raising.
C22_CacheKeepsLastFifty ==
    [](CacheIsRecentHistory) /\ [][CacheStep]_vars

\* the oldest sample of a session has been evicted while the other session
\* still has its whole history cached, and the last call was rejected
C22_Witness ==
    /\ "s1" \in DOMAIN processed /\ "s2" \in DOMAIN processed
    /\ Len(processed["s1"]) = 51
    /\ Len(location_cache["s1"]) = 50
    /\ location_cache["s1"][1] = processed["s1"][2]
    /\ location_cache["s2"] = processed["s2"]
    /\ Len(processed["s2"]) = 3
    /\ ret.error # None

\* the members of the returned clusters that are the k-th input sample, as
\* <<cluster, position>> pairs
MembersOf(k) ==
    { cm \in { <<c, m>> : c \in 1..Len(ret), m \in 1..MaxSamples + 1 } :
        /\ cm[2] <= Len(ret[cm[1]].locations)
        /\ ret[cm[1]].locations[cm[2]][3] = call.args[1][k].timestamp }

\* C23: the greedy clustering assigns every input sample to at most one
\* returned cluster; every member of a cluster is an input sample; the seed
\* of a cluster (its first member, its center) precedes all its other
\* members in the input order; and the member count of a cluster is one plus
\* the number of samples it absorbed.
C23_SamplesAssignedOnce ==
    call.op = "create_location_clusters" =>
        LET location_data == call.args[1]
        IN  /\ \A k \in 1..Len(location_data) : Cardinality(MembersOf(k)) <= 1
            /\ \A c \in 1..Len(ret) :
                  /\ \A m \in 1..Len(ret[c].locations) :
                        \E k \in 1..Len(location_data) :
                            ret[c].locations[m] =
                                <<location_data[k].latitude, location_data[k].longitude,
                                  location_data[k].timestamp>>
                  /\ \A m \in 2..Len(ret[c].locations) :
                        ret[c].locations[1][3] < ret[c].locations[m][3]
                  /\ ret[c].user_count =
                        1 + Cardinality({ k \in 1..Len(location_data) :
                                /\ location_data[k].timestamp # ret[c].locations[1][3]
                                /\ \E m \in 1..Len(ret[c].locations) :
                                      ret[c].locations[m][3] = location_data[k].timestamp })

\* C23 witness: the first and the third of three samples form the one
\* cluster, seeded by the first, and the second sample, 500 m away, is in no
\* cluster.
C23_Witness ==
    /\ call.op = "create_location_clusters"
    /\ Len(call.args[1]) = 3
    /\ Len(ret) = 1
    /\ ret[1].user_count = 2
    /\ ret[1].locations[1][3] = 1
    /\ ret[1].locations[2][3] = 3
    /\ MembersOf(2) = {}

\* the k-th input sample of a clustering call as a point, and the samples
\* that have another sample within the cluster radius
SamplePoint(k) == <<call.args[1][k].latitude, call.args[1][k].longitude>>
Neighbours(k) ==
    { j \in 1..Len(call.args[1]) :
        j # k /\ Apart(SamplePoint(j), SamplePoint(k)) <= Meters(100) }
Clustered(k) == MembersOf(k) # {}

\* C29: in the greedy clustering, every input sample that has at least one
\* other input sample within the cluster radius (100 m) is a member of some
\* returned cluster, whatever the input order.
C29_NeighbouredSampleClustered ==
    call.op = "create_location_clusters" =>
        \A k \in 1..Len(call.args[1]) : Neighbours(k) # {} => Clustered(k)

\* C29, amended: of two input samples within the cluster radius of each
\* other at least one is a member of a returned cluster; a sample that is
\* left out has all its neighbours in clusters seeded before it was reached.
C29_NeighboursNotBothLeftOut ==
    call.op = "create_location_clusters" =>
        \A k \in 1..Len(call.args[1]) :
            ~Clustered(k) =>
                \A j \in Neighbours(k) :
                    /\ Clustered(j)
                    /\ \A cm \in MembersOf(j) :
                          /\ cm[2] > 1
                          /\ ret[cm[1]].locations[1][3] < call.args[1][k].timestamp

\* C29 witness: Main Gate, the point 44 m north and the point 100.1 m north
\* of it, in this order: the first two form the cluster, and the third, 56 m
\* from the second, is left out.
C29_Witness ==
    /\ call.op = "create_location_clusters"
    /\ Len(call.args[1]) = 3
    /\ Len(ret) = 1
    /\ Clustered(1) /\ Clustered(2) /\ ~Clustered(3)
    /\ Neighbours(3) = {2}

(***************************************************************************)
(* app/main.py: the WebSocket connection manager.                          *)
(*                                                                         *)
(* active_connections is a Python dict.  It is modelled by its entry       *)
(* table: the entries in insertion order, a deleted entry staying in place *)
(* as a dead slot (the table is rebuilt only when a sixth key is inserted, *)
(* which no explored run does).  A dict iterator remembers the size of the *)
(* dict when it was made (di_used), its position in the table (di_pos) and *)
(* how many items are left (len).                                          *)
(***************************************************************************)
Entry(key, value) == [live |-> TRUE, key |-> key, value |-> value]
Deleted == [live |-> FALSE, key |-> "", value |-> ""]

Live(d) == { i \in 1..Len(d) : d[i].live }
DictLen(d) == Cardinality(Live(d))
DictHas(d, key) == \E i \in Live(d) : d[i].key = key
DictIndex(d, key) == CHOOSE i \in Live(d) : d[i].key = key
DictGet(d, key) == d[DictIndex(d, key)].value
DictItems(d) == { <<d[i].key, d[i].value>> : i \in Live(d) }

\* d[key] = value: an existing key keeps its slot
DictSet(d, key, value) ==
    IF DictHas(d, key) THEN [d EXCEPT ![DictIndex(d, key)].value = value]
    ELSE Append(d, Entry(key, value))

\* del d[key]
DictDel(d, key) == [d EXCEPT ![DictIndex(d, key)] = Deleted]

\* the first live slot from pos on, Len(d) + 1 when there is none
NextLive(d, pos) ==
    IF \E i \in Live(d) : i >= pos
    THEN CHOOSE i \in Live(d) : i >= pos /\ \A j \in Live(d) : j >= pos => i <= j
    ELSE Len(d) + 1

\* ConnectionManager.connect, after websocket.accept()
connect(connections, websocket, session_id) ==
    DictSet(connections, session_id, websocket)

\* ConnectionManager.disconnect
disconnect(connections, session_id) ==
    IF DictHas(connections, session_id) THEN DictDel(connections, session_id)
    ELSE connections

\* "for session_id in disconnected: self.disconnect(session_id)"
RECURSIVE DisconnectAll(_, _, _)
DisconnectAll(disconnected, k, connections) ==
    IF k > Len(disconnected) THEN connections
    ELSE DisconnectAll(disconnected, k + 1, disconnect(connections, disconnected[k]))

\* what a finished call leaves: a returned value or a raised exception
Done(value) == [kind |-> "returned", value |-> value]
Pending == [kind |-> "pending"]

\* The frame of a websocket_endpoint coroutine, suspended in receive_text.
\* peer is the state of the client's side of the socket: send_text succeeds
\* while it is open and raises once the client has gone.
EndpointFrame(session_id) ==
    [kind |-> "endpoint", session_id |-> session_id, pc |-> "receive", peer |-> "open"]

SendSucceeds(frames, websocket) ==
    websocket \in DOMAIN frames /\ frames[websocket].peer = "open"

\* The frame of a broadcast_location_update coroutine when its for loop
\* starts.  registered, attempted, failed and removed record what the call
\* found registered, whom it sent to, whose send raised and which entries
\* its cleanup deleted; response is what its caller returns afterwards and
\* background the task the caller has added to its response.
BroadcastFrame(data, connections, response, background) ==
    [kind |-> "broadcast", pc |-> "iterate", data |-> data,
     di_used |-> DictLen(connections), di_pos |-> 1, len |-> DictLen(connections),
     target |-> <<>>, disconnected |-> <<>>,
     registered |-> DictItems(connections),
     attempted |-> {}, failed |-> {}, removed |-> {},
     outcome |-> "running", response |-> response, background |-> background]

\* broadcast_location_update from the head of its for loop to its next
\* await: the iterator raises RuntimeError when the dict changed its size
\* ("dictionary changed size during iteration") or holds an item more than
\* it had ("dictionary keys changed during iteration"), which no try of the
\* method catches; the exhausted iterator ends the loop and the cleanup
\* runs; otherwise the next item is taken and its send is awaited.
BroadcastIterate(frame, connections) ==
    IF frame.di_used # DictLen(connections)
    THEN [frame |-> [frame EXCEPT !.pc = "done", !.outcome = "RuntimeError"],
          connections |-> connections]
    ELSE LET i == NextLive(connections, frame.di_pos)
         IN  IF i > Len(connections)
             THEN LET after == DisconnectAll(frame.disconnected, 1, connections)
                  IN  [frame |-> [frame EXCEPT
                                    !.pc = "done", !.outcome = "returned",
                                    !.removed = DictItems(connections) \ DictItems(after)],
                       connections |-> after]
             ELSE IF frame.len = 0
             THEN [frame |-> [frame EXCEPT !.pc = "done", !.outcome = "RuntimeError"],
                   connections |-> connections]
             ELSE [frame |-> [frame EXCEPT
                                !.pc = "send",
                                !.target = <<connections[i].key, connections[i].value>>,
                                !.di_pos = i + 1,
                                !.len = @ - 1,
                                !.attempted = @ \cup {<<connections[i].key,
                                                        connections[i].value>>}],
                   connections |-> connections]

\* the awaited send_text of a broadcast has ended: the message reached the
\* client, or the send raised and the session is noted for the cleanup
AfterSend(frame, frames) ==
    IF SendSucceeds(frames, frame.target[2]) THEN frame
    ELSE [frame EXCEPT !.disconnected = Append(@, frame.target[1]),
                       !.failed = @ \cup {frame.target}]

\* what the caller of a finished broadcast gets
BroadcastResult(frame) ==
    IF frame.pc # "done" THEN Pending
    ELSE IF frame.outcome = "returned" THEN frame.response
    ELSE Raised(frame.outcome)

\* f with x mapped to v
With(f, x, v) == [y \in DOMAIN f \cup {x} |-> IF y = x THEN v ELSE f[y]]

\* BackgroundTasks: the task of a response runs once the handler has
\* returned; a handler that raised has no response to carry it
Scheduled(frames, frame) ==
    IF frame.pc = "done" /\ frame.outcome = "returned" /\ frame.background # None
    THEN With(frames, frame.background[1].name, frame.background[1].frame)
    ELSE frames

(***************************************************************************)
(* Socket specification: clients open WebSockets under session ids of     *)
(* their choice, send heartbeats and go away, while broadcasts run.        *)
(***************************************************************************)
MaxBroadcasts == 1
MaxHeartbeats == 1

WebSockets == {"w1", "w2"}
SocketSessions == {"u1", "u2"}
BroadcastNames == <<"b1", "b2", "b3">>
BroadcastIds == { BroadcastNames[n] : n \in 1..MaxBroadcasts }

Heartbeat == [type |-> "heartbeat"]
Heartbeats(websocket) ==
    Cardinality({ k \in 1..Len(delivered[websocket]) :
                    delivered[websocket][k] = Heartbeat })

\* websocket_endpoint up to its first receive_text: manager.connect
Connect ==
    /\ \E websocket \in WebSockets \ DOMAIN tasks, session_id \in SocketSessions :
         /\ active_connections' = connect(active_connections, websocket, session_id)
         /\ tasks' = With(tasks, websocket, EndpointFrame(session_id))
         /\ delivered' = With(delivered, websocket, <<>>)
         /\ call' = Call("connect", <<websocket, session_id>>)
         /\ ret' = Done(None)
    /\ UNCHANGED <<location_cache, processed, sessions, location_updates, alerts, now>>

\* a text arrives and the heartbeat is sent back
ReceiveText ==
    /\ \E websocket \in WebSockets \cap DOMAIN tasks :
         /\ tasks[websocket].pc = "receive"
         /\ tasks[websocket].peer = "open"
         /\ Heartbeats(websocket) < MaxHeartbeats
         /\ delivered' = [delivered EXCEPT ![websocket] = Append(@, Heartbeat)]
         /\ call' = Call("receive_text", <<websocket>>)
         /\ ret' = Done(None)
    /\ UNCHANGED <<location_cache, processed, sessions, location_updates, alerts, now,
                   active_connections, tasks>>

\* the client closes its side of the socket
ClientClose ==
    /\ \E websocket \in WebSockets \cap DOMAIN tasks :
         /\ tasks[websocket].peer = "open"
         /\ tasks' = [tasks EXCEPT ![websocket].peer = "closed"]
         /\ call' = Call("close", <<websocket>>)
         /\ ret' = Done(None)
    /\ UNCHANGED <<location_cache, processed, sessions, location_updates, alerts, now,
                   active_connections, delivered>>

\* receive_text raises WebSocketDisconnect: manager.disconnect(session_id)
Disconnect ==
    /\ \E websocket \in WebSockets \cap DOMAIN tasks :
         /\ tasks[websocket].pc = "receive"
         /\ tasks[websocket].peer = "closed"
         /\ active_connections' =
                disconnect(active_connections, tasks[websocket].session_id)
         /\ tasks' = [tasks EXCEPT ![websocket].pc = "done"]
         /\ call' = Call("disconnect", <<websocket, tasks[websocket].session_id>>)
         /\ ret' = Done(None)
    /\ UNCHANGED <<location_cache, processed, sessions, location_updates, alerts, now,
                   delivered>>

\* broadcast_location_update is called and runs to its first await
BroadcastLocationUpdate ==
    /\ \E b \in BroadcastIds \ DOMAIN tasks :
         LET data == [type |-> "location_update", id |-> b]
             step == BroadcastIterate(
                         BroadcastFrame(data, active_connections, Done(None), None),
                         active_connections)
         IN  /\ tasks' = Scheduled(With(tasks, b, step.frame), step.frame)
             /\ active_connections' = step.connections
             /\ call' = Call("broadcast_location_update", <<b>>)
             /\ ret' = BroadcastResult(step.frame)
    /\ UNCHANGED <<location_cache, processed, sessions, location_updates, alerts, now,
                   delivered>>

\* an awaited send of a broadcast ends and the broadcast runs on to its
\* next await or to its end
BroadcastSent ==
    /\ \E b \in DOMAIN tasks :
         /\ tasks[b].kind = "broadcast"
         /\ tasks[b].pc = "send"
         /\ LET sent == AfterSend(tasks[b], tasks)
                step == BroadcastIterate(sent, active_connections)
            IN  /\ tasks' = Scheduled([tasks EXCEPT ![b] = step.frame], step.frame)
                /\ active_connections' = step.connections
                /\ delivered' =
                       IF SendSucceeds(tasks, tasks[b].target[2])
                       THEN [delivered EXCEPT ![tasks[b].target[2]] =
                                                    Append(@, tasks[b].data)]
                       ELSE delivered
                /\ call' = Call("broadcast_location_update", <<b>>)
                /\ ret' = BroadcastResult(step.frame)
    /\ UNCHANGED <<location_cache, processed, sessions, location_updates, alerts, now>>

NextSocket ==
    \/ Connect
    \/ ReceiveText
    \/ ClientClose
    \/ Disconnect
    \/ BroadcastLocationUpdate
    \/ BroadcastSent

SpecSocket == Init /\ [][NextSocket]_vars

\* the clients whose socket is open and whose endpoint waits in receive_text
ConnectedClients ==
    { w \in WebSockets \cap DOMAIN tasks :
        tasks[w].pc = "receive" /\ tasks[w].peer = "open" }

Registered(websocket) ==
    <<tasks[websocket].session_id, websocket>> \in DictItems(active_connections)

\* C25: a WebSocket client that is connected and has neither disconnected
\* nor failed a send stays registered in active_connections, whatever other
\* clients connect or disconnect, also under the same session_id.
C25_ConnectedStaysRegistered ==
    \A w \in ConnectedClients : Registered(w)

\* the broadcasts that have ended
FinishedBroadcasts ==
    { b \in DOMAIN tasks : tasks[b].kind = "broadcast" /\ tasks[b].pc = "done" }

\* C26: broadcast_location_update attempts delivery to every connection
\* registered when it starts, removes exactly the connections whose send
\* failed, and completes without raising, for any interleaving of connects
\* and disconnects with its awaited sends.
C26_BroadcastCompletes ==
    \A b \in FinishedBroadcasts :
        /\ tasks[b].outcome = "returned"
        /\ tasks[b].attempted = tasks[b].registered
        /\ tasks[b].removed = tasks[b].failed

(***************************************************************************)
(* app/api/auth.py, app/models/user.py: sessions and their tokens.         *)
(* Instants are minutes.  A response is [kind, status, detail].            *)
(***************************************************************************)
SessionLifetime == 240  \* expires_at: timedelta(hours=4); the JWT: 240 minutes
ServerStarted == 0      \* the instant the module app.models.user was imported

HTTPException(status_code, detail) ==
    [kind |-> "response", status |-> status_code, detail |-> detail]
Ok(detail) == [kind |-> "response", status |-> 200, detail |-> detail]

\* secrets.token_urlsafe(32): a token no other session has
SessionToken(id) == <<"token", id>>

\* UserSession(session_token=..., role=..., emergency_contact=...)
UserSession(id, role, emergency_contact, clock) ==
    [id |-> id, session_token |-> SessionToken(id), role |-> role,
     emergency_contact |-> emergency_contact, is_active |-> TRUE,
     created_at |-> clock, expires_at |-> clock + SessionLifetime,
     last_seen |-> clock]

\* UserSession.is_expired
is_expired(session, clock) == clock > session.expires_at

\* create_access_token: the signed payload; a token not signed with the
\* server's key is Forged
create_access_token(session_token, expires_delta, clock) ==
    [valid |-> TRUE, session_token |-> session_token, exp |-> clock + expires_delta]
Forged == [valid |-> FALSE, session_token |-> <<>>, exp |-> 0]

\* jwt.decode raises JWTError for a bad signature and for a passed "exp"
JWTError(credentials, clock) == ~credentials.valid \/ clock > credentials.exp

CredentialsException == HTTPException(401, "Could not validate credentials")

\* get_current_session: the session of the bearer token, with its last_seen
\* set and committed, or the exception raised
get_current_session(credentials, table, clock) ==
    IF JWTError(credentials, clock) \/ credentials.session_token = <<>>
    THEN [ok |-> FALSE, error |-> CredentialsException, sessions |-> table]
    ELSE LET found == { id \in DOMAIN table :
                          table[id].session_token = credentials.session_token }
         IN  IF found = {}
             THEN [ok |-> FALSE, error |-> CredentialsException, sessions |-> table]
             ELSE LET id == CHOOSE i \in found : TRUE
                  IN  IF is_expired(table[id], clock)
                      THEN [ok |-> FALSE,
                            error |-> HTTPException(401, "Session expired"),
                            sessions |-> table]
                      ELSE [ok |-> TRUE, session_id |-> id,
                            sessions |-> [table EXCEPT ![id].last_seen = clock]]

\* switch_role, after the dependency
switch_role(table, id, new_role, clock) ==
    [table EXCEPT ![id].role = new_role, ![id].last_seen = clock]

\* end_session, after the dependency: the UPDATE sets is_active; last_seen
\* is not in its SET clause, so the column's onupdate value is applied, the
\* datetime.now() evaluated once when the model class was defined
end_session(table, id) ==
    [table EXCEPT ![id].is_active = FALSE, ![id].last_seen = ServerStarted]

(***************************************************************************)
(* app/core/analytics.py: the three count queries of get_real_time_stats.  *)
(***************************************************************************)
ActiveWindow == 5   \* timedelta(minutes=5)

count_active_sessions(table, active_cutoff) ==
    Cardinality({ id \in DOMAIN table :
                    table[id].is_active /\ table[id].last_seen >= active_cutoff })

\* the drivers counted without the test of is_active
count_active_drivers_m(table, active_cutoff) ==
    Cardinality({ id \in DOMAIN table :
                    /\ table[id].last_seen >= active_cutoff
                    /\ table[id].role = "driver" })

count_active_drivers(table, active_cutoff) ==
    Cardinality({ id \in DOMAIN table :
                    /\ table[id].is_active
                    /\ table[id].last_seen >= active_cutoff
                    /\ table[id].role = "driver" })

count_active_passengers(table, active_cutoff) ==
    Cardinality({ id \in DOMAIN table :
                    /\ table[id].is_active
                    /\ table[id].last_seen >= active_cutoff
                    /\ table[id].role = "passenger" })

\* The frame of a get_real_time_stats coroutine after its first query.
\* first is the sessions table that query read and quiet tells whether the
\* later queries read the same table.
StatsFrame(table, clock) ==
    [kind |-> "stats", pc |-> "drivers", active_cutoff |-> clock - ActiveWindow,
     total_active |-> count_active_sessions(table, clock - ActiveWindow),
     active_drivers |-> 0, active_passengers |-> 0,
     first |-> table, quiet |-> TRUE, result |-> <<>>]

(***************************************************************************)
(* app/api/location.py, app/api/emergency.py, app/core/emergency_alert.py  *)
(***************************************************************************)
\* LocationUpdate(...), as committed
LocationUpdate(session_id, latitude, longitude, bike_availability, clock) ==
    [session_id |-> session_id, latitude |-> latitude, longitude |-> longitude,
     bike_availability |-> bike_availability,
     location_context |-> get_nearest_landmark(latitude, longitude, 1000),
     timestamp |-> clock]

\* EmergencyAlert(...), as committed
EmergencyAlert(id, session_id, latitude, longitude, alert_type, clock) ==
    [id |-> id, session_id |-> session_id, latitude |-> latitude,
     longitude |-> longitude, alert_type |-> alert_type,
     message |-> get_nearest_landmark(latitude, longitude, 1000),
     is_resolved |-> FALSE, created_at |-> clock, resolved_at |-> None,
     sms_sent |-> FALSE, authorities_notified |-> FALSE]

\* the channels whose delivery handle_emergency_alert awaits: the SMS to the
\* contacts, the security API, the student union system and the e-mails
Channels == {"sms", "security_api", "student_union", "email"}

\* handle_emergency_alert: the four notification coroutines are gathered
\* with return_exceptions=True and each catches its own failures; their
\* results are dropped and True is returned
handle_emergency_alert(alert, failing) == TRUE

\* send_emergency_notifications: the alerts table afterwards and the result
send_emergency_notifications(alert_id, table, failing) ==
    IF alert_id \in DOMAIN table
    THEN LET success == handle_emergency_alert(table[alert_id], failing)
         IN  [alerts |-> [table EXCEPT ![alert_id].authorities_notified = success,
                                       ![alert_id].sms_sent = success],
              result |-> Done(success)]
    ELSE [alerts |-> table, result |-> Done(None)]

\* the frame of the background task of an alert; reached records the
\* channels that delivered
NotifyFrame(alert_id, session) ==
    [kind |-> "notify", pc |-> "scheduled", alert_id |-> alert_id,
     session |-> session, reached |-> {}]

\* resolve_alert, after the dependency
resolve_alert(table, alert_id, session_id, clock) ==
    IF alert_id \in DOMAIN table /\ table[alert_id].session_id = session_id
    THEN [alerts |-> [table EXCEPT ![alert_id].is_resolved = TRUE,
                                   ![alert_id].resolved_at = Some(clock)],
          response |-> Ok("Alert resolved successfully")]
    ELSE [alerts |-> table, response |-> HTTPException(404, "Alert not found")]

(***************************************************************************)
(* Session specification: clients create sessions and send authenticated   *)
(* requests with the tokens they were given, and time passes.              *)
(***************************************************************************)
MaxStatsCalls == 1

SessionNames == <<"u1", "u2">>
Contacts == {Some("+2348012345678")}
Instants == {0, 6, 246}     \* a session seen at 0 is stale at 6 and expired at 246
UpdatePoints == { <<OAU_CENTER_LAT, OAU_CENTER_LNG>>, <<0, 0>> }
StatsNames == <<"s1", "s2">>
HandlerBroadcasts == <<"h1", "h2", "h3">>

\* the first name of a sequence that is not in use
HasFree(names, used) == \E k \in 1..Len(names) : names[k] \notin used
FirstFree(names, used) ==
    names[CHOOSE k \in 1..Len(names) :
             names[k] \notin used /\ \A j \in 1..(k - 1) : names[j] \in used]

\* the bearer tokens a client can present: those issued by create_session,
\* and a forged one
Credentials ==
    { create_access_token(sessions[id].session_token, SessionLifetime,
                          sessions[id].created_at) : id \in DOMAIN sessions }
        \cup {Forged}

Tick ==
    /\ \E t \in Instants :
         /\ t > now
         /\ \A u \in Instants : u > now => t <= u
         /\ now' = t
    /\ call' = Call("tick", <<>>)
    /\ ret' = None
    /\ UNCHANGED <<location_cache, processed, sessions, location_updates, alerts,
                   active_connections, tasks, delivered>>

CreateSession ==
    /\ HasFree(SessionNames, DOMAIN sessions)
    /\ \E role \in Roles, emergency_contact \in Contacts :
         LET id == FirstFree(SessionNames, DOMAIN sessions)
             session == UserSession(id, role, emergency_contact, now)
         IN  /\ sessions' = With(sessions, id, session)
             /\ call' = Call("create_session", <<role, emergency_contact>>)
             /\ ret' = Ok(create_access_token(session.session_token,
                                              SessionLifetime, now))
    /\ UNCHANGED <<location_cache, processed, location_updates, alerts, now,
                   active_connections, tasks, delivered>>

GetCurrentUserSession ==
    /\ \E credentials \in Credentials :
         LET current == get_current_session(credentials, sessions, now)
         IN  /\ call' = Call("get_current_user_session", <<credentials>>)
             /\ sessions' = current.sessions
             /\ ret' = IF current.ok THEN Ok(sessions'[current.session_id])
                       ELSE current.error
    /\ UNCHANGED <<location_cache, processed, location_updates, alerts, now,
                   active_connections, tasks, delivered>>

SwitchRole ==
    /\ \E credentials \in Credentials, new_role \in Roles :
         LET current == get_current_session(credentials, sessions, now)
         IN  /\ call' = Call("switch_role", <<credentials, new_role>>)
             /\ sessions' = IF current.ok
                            THEN switch_role(current.sessions, current.session_id,
                                             new_role, now)
                            ELSE current.sessions
             /\ ret' = IF current.ok THEN Ok(new_role) ELSE current.error
    /\ UNCHANGED <<location_cache, processed, location_updates, alerts, now,
                   active_connections, tasks, delivered>>

EndSession ==
    /\ \E credentials \in Credentials :
         LET current == get_current_session(credentials, sessions, now)
         IN  /\ call' = Call("end_session", <<credentials>>)
             /\ sessions' = IF current.ok
                            THEN end_session(current.sessions, current.session_id)
                            ELSE current.sessions
             /\ ret' = IF current.ok THEN Ok("Session ended successfully")
                       ELSE current.error
    /\ UNCHANGED <<location_cache, processed, location_updates, alerts, now,
                   active_connections, tasks, delivered>>

\* update_location: the dependency, the geofence, the row and last_seen,
\* the commit, and the broadcast up to its first await
UpdateLocation ==
    /\ HasFree(HandlerBroadcasts, DOMAIN tasks)
    /\ \E credentials \in Credentials, p \in UpdatePoints,
          bike_availability \in {Some("high")} :
         LET current == get_current_session(credentials, sessions, now)
             accepted == current.ok /\ is_within_oau_campus(p[1], p[2])
             nearest_landmark == get_nearest_landmark(p[1], p[2], 1000)
             data == [type |-> "location_update", id |-> nearest_landmark]
             b == FirstFree(HandlerBroadcasts, DOMAIN tasks)
             step == BroadcastIterate(
                         BroadcastFrame(data, active_connections,
                                        Ok("Location updated successfully"), None),
                         active_connections)
         IN  /\ call' = Call("update_location", <<credentials, p, bike_availability>>)
             /\ sessions' = IF accepted
                            THEN [current.sessions EXCEPT
                                    ![current.session_id].last_seen = now]
                            ELSE current.sessions
             /\ location_updates' =
                    IF accepted
                    THEN Append(location_updates,
                                LocationUpdate(current.session_id, p[1], p[2],
                                               bike_availability, now))
                    ELSE location_updates
             /\ tasks' = IF accepted THEN Scheduled(With(tasks, b, step.frame), step.frame)
                         ELSE tasks
             /\ active_connections' = IF accepted THEN step.connections
                                      ELSE active_connections
             /\ ret' = IF ~current.ok THEN current.error
                       ELSE IF ~accepted
                       THEN HTTPException(400, "Location is outside OAU campus boundaries")
                       ELSE BroadcastResult(step.frame)
    /\ UNCHANGED <<location_cache, processed, alerts, now, delivered>>

\* get_real_time_stats is called and its first query counts the active
\* sessions
StatsCountTotal ==
    /\ \E k \in 1..MaxStatsCalls :
         /\ StatsNames[k] \notin DOMAIN tasks
         /\ \A j \in 1..(k - 1) : StatsNames[j] \in DOMAIN tasks
         /\ tasks' = With(tasks, StatsNames[k], StatsFrame(sessions, now))
         /\ call' = Call("get_real_time_stats", <<StatsNames[k]>>)
         /\ ret' = Pending
    /\ UNCHANGED <<location_cache, processed, sessions, location_updates, alerts, now,
                   active_connections, delivered>>

\* its second query counts the active drivers
StatsCountDrivers ==
    /\ \E s \in DOMAIN tasks :
         /\ tasks[s].kind = "stats"
         /\ tasks[s].pc = "drivers"
         /\ tasks' = [tasks EXCEPT
                        ![s].pc = "passengers",
                        ![s].active_drivers =
                            count_active_drivers(sessions, tasks[s].active_cutoff),
                        ![s].quiet = @ /\ sessions = tasks[s].first]
         /\ call' = Call("get_real_time_stats", <<s>>)
         /\ ret' = Pending
    /\ UNCHANGED <<location_cache, processed, sessions, location_updates, alerts, now,
                   active_connections, delivered>>

\* its third query counts the active passengers, and the report is returned
StatsCountPassengers ==
    /\ \E s \in DOMAIN tasks :
         /\ tasks[s].kind = "stats"
         /\ tasks[s].pc = "passengers"
         /\ LET active_passengers ==
                    count_active_passengers(sessions, tasks[s].active_cutoff)
                result == active_users(Some(tasks[s].total_active),
                                       Some(tasks[s].active_drivers),
                                       Some(active_passengers))
            IN  /\ tasks' = [tasks EXCEPT
                               ![s].pc = "done",
                               ![s].active_passengers = active_passengers,
                               ![s].quiet = @ /\ sessions = tasks[s].first,
                               ![s].first = <<>>,
                               ![s].result = result]
                /\ call' = Call("get_real_time_stats", <<s>>)
                /\ ret' = Done(result)
    /\ UNCHANGED <<location_cache, processed, sessions, location_updates, alerts, now,
                   active_connections, delivered>>

NextSession ==
    \/ Tick
    \/ CreateSession
    \/ GetCurrentUserSession
    \/ SwitchRole
    \/ EndSession
    \/ UpdateLocation

SpecSession == Init /\ [][NextSession]_vars

(***************************************************************************)
(* Statistics specification: sessions are created, switch role and end     *)
(* while calls of get_real_time_stats run their three count queries.       *)
(***************************************************************************)
NextStats ==
    \/ CreateSession
    \/ SwitchRole
    \/ EndSession
    \/ StatsCountTotal
    \/ StatsCountDrivers
    \/ StatsCountPassengers

SpecStats == Init /\ [][NextStats]_vars

(***************************************************************************)
(* Claims on the session and statistics specifications                     *)
(***************************************************************************)
AuthenticatedOps ==
    {"get_current_user_session", "switch_role", "end_session", "update_location"}

\* the token create_session returned for a session
TokenOf(id) ==
    create_access_token(sessions[id].session_token, SessionLifetime,
                        sessions[id].created_at)

EndedSessionStep ==
    \A id \in DOMAIN sessions :
        (/\ ~sessions[id].is_active
         /\ call'.op \in AuthenticatedOps
         /\ call'.args[1] = TokenOf(id))
            => /\ ret'.status = 401
               /\ sessions'[id] = sessions[id]

\* C24: once end_session has succeeded for a session, every later request
\* that presents the session's token is rejected with 401 and leaves the
\* session's row, last_seen included, as it was.
C24_EndedSessionRejected == [][EndedSessionStep]_vars

RejectedUpdateStep ==
    (call'.op = "update_location" /\ ret'.status = 400)
        => /\ sessions' = sessions
           /\ location_updates' = location_updates
           /\ tasks' = tasks
           /\ delivered' = delivered

\* C30: an update_location request rejected with 400 because the coordinate
\* is outside the campus stores no LocationUpdate row, starts no broadcast
\* and leaves every session row, last_seen included, unchanged.
C30_RejectedUpdateChangesNothing == [][RejectedUpdateStep]_vars

FinishedStats ==
    { s \in DOMAIN tasks : tasks[s].kind = "stats" /\ tasks[s].pc = "done" }

\* C28: every result of get_real_time_stats reports a total equal to its
\* drivers plus its passengers, whatever was committed between its queries.
C28_TotalIsDriversPlusPassengers ==
    \A s \in FinishedStats :
        tasks[s].result.total = tasks[s].result.drivers + tasks[s].result.passengers

\* C28, amended: a result of get_real_time_stats whose three queries read
\* the same sessions table reports a total equal to its drivers plus its
\* passengers.
C28_QuietTotalIsDriversPlusPassengers ==
    \A s \in FinishedStats :
        tasks[s].quiet =>
            tasks[s].result.total = tasks[s].result.drivers + tasks[s].result.passengers

C28_Witness ==
    \E s \in FinishedStats :
        /\ tasks[s].quiet
        /\ tasks[s].result.total = 2
        /\ tasks[s].result.drivers = 1
        /\ tasks[s].result.passengers = 1

(***************************************************************************)
(* Alert specification: sessions raise emergency alerts, the background    *)
(* task of each alert sends its notifications over channels that deliver   *)
(* or fail, and sessions resolve alerts.                                   *)
(***************************************************************************)
MaxAlertRows == 1

AlertNames == <<"a1", "a2">>
NotifyNames == <<"n1", "n2">>
AlertTypes == {"panic", "medical"}
AlertPoints == { <<OAU_CENTER_LAT, OAU_CENTER_LNG>> }

\* trigger_emergency_alert: the dependency, the alert row and its commit,
\* the background task added to the response, and the broadcast up to its
\* first await
TriggerEmergencyAlert ==
    /\ HasFree(HandlerBroadcasts, DOMAIN tasks)
    /\ \E k \in 1..MaxAlertRows, credentials \in Credentials, p \in AlertPoints,
          alert_type \in AlertTypes :
         /\ AlertNames[k] \notin DOMAIN alerts
         /\ \A j \in 1..(k - 1) : AlertNames[j] \in DOMAIN alerts
         /\ LET current == get_current_session(credentials, sessions, now)
                id == AlertNames[k]
                alert == EmergencyAlert(id, current.session_id, p[1], p[2],
                                        alert_type, now)
                background ==
                    [name |-> NotifyNames[k],
                     frame |-> NotifyFrame(id, current.sessions[current.session_id])]
                data == [type |-> "emergency_alert", id |-> id]
                b == FirstFree(HandlerBroadcasts, DOMAIN tasks)
                step == BroadcastIterate(
                            BroadcastFrame(data, active_connections,
                                           Ok("Emergency alert sent successfully"),
                                           Some(background)),
                            active_connections)
            IN  /\ call' = Call("trigger_emergency_alert",
                                <<credentials, p, alert_type>>)
                /\ sessions' = current.sessions
                /\ alerts' = IF current.ok THEN With(alerts, id, alert) ELSE alerts
                /\ tasks' = IF current.ok
                            THEN Scheduled(With(tasks, b, step.frame), step.frame)
                            ELSE tasks
                /\ active_connections' = IF current.ok THEN step.connections
                                         ELSE active_connections
                /\ ret' = IF current.ok THEN BroadcastResult(step.frame)
                          ELSE current.error
    /\ UNCHANGED <<location_cache, processed, location_updates, now, delivered>>

\* the background task of an alert runs: each channel delivers or fails
SendEmergencyNotifications ==
    /\ \E n \in DOMAIN tasks, failing \in SUBSET Channels :
         /\ tasks[n].kind = "notify"
         /\ tasks[n].pc = "scheduled"
         /\ LET sent == send_emergency_notifications(tasks[n].alert_id, alerts, failing)
            IN  /\ alerts' = sent.alerts
                /\ tasks' = [tasks EXCEPT ![n].pc = "done",
                                          ![n].reached = Channels \ failing]
                /\ call' = Call("send_emergency_notifications",
                                <<tasks[n].alert_id, failing>>)
                /\ ret' = sent.result
    /\ UNCHANGED <<location_cache, processed, sessions, location_updates, now,
                   active_connections, delivered>>

ResolveAlert ==
    /\ \E credentials \in Credentials, k \in 1..Len(AlertNames) :
         LET current == get_current_session(credentials, sessions, now)
             resolved == resolve_alert(alerts, AlertNames[k], current.session_id, now)
         IN  /\ call' = Call("resolve_alert", <<credentials, AlertNames[k]>>)
             /\ sessions' = current.sessions
             /\ alerts' = IF current.ok THEN resolved.alerts ELSE alerts
             /\ ret' = IF current.ok THEN resolved.response ELSE current.error
    /\ UNCHANGED <<location_cache, processed, location_updates, now,
                   active_connections, tasks, delivered>>

NextAlert ==
    \/ CreateSession
    \/ TriggerEmergencyAlert
    \/ SendEmergencyNotifications
    \/ ResolveAlert

SpecAlert == Init /\ [][NextAlert]_vars

\* the channels the stored flags speak of: the SMS and the notifications of
\* the campus authorities
FlagChannels == {"sms", "security_api", "student_union"}

\* C27: an alert whose sms_sent or authorities_notified flag is set had at
\* least one SMS or authority notification delivered by its background
\* task; when all of these channels failed, the flags are still false.
C27_FlagsOnlyAfterDelivery ==
    \A a \in DOMAIN alerts :
        (alerts[a].sms_sent \/ alerts[a].authorities_notified)
            => \E n \in DOMAIN tasks :
                   /\ tasks[n].kind = "notify"
                   /\ tasks[n].alert_id = a
                   /\ tasks[n].reached \cap FlagChannels # {}

====
